---------------------------- MODULE Spec2Model ----------------------------
(***************************************************************************)
(* A model of the asynchronous session orchestrator of wilson.py (class    *)
(* AI_Core): the tasks spawned by main_task_runner on one cooperative      *)
(* event loop, the queues that connect them, and stop() issued from the    *)
(* UI thread.                                                              *)
(*                                                                         *)
(* One action is one run of a coroutine between two suspension points      *)
(* (an await that really suspends).  The running flag is written by the UI *)
(* thread, so every test of it is a separate read of the variable          *)
(* is_running.  Calls to the remote session are recorded when they are     *)
(* issued.                                                                 *)
(***************************************************************************)
EXTENDS Naturals, Sequences, FiniteSets

VARIABLES
    is_running,              \* AI_Core.is_running
    cancelled,               \* shutdown_async_tasks has cancelled the tasks
    \* ---- receive_text -------------------------------------------------
    recv_pc,                 \* position of the receive_text coroutine
    chunk_calls,             \* chunk.tool_call.function_calls of the chunk in hand
    fc_index,                \* index of the next function call to dispatch
    function_responses,      \* the local list function_responses
    turn_urls,               \* the local set turn_urls
    turn_code_content,       \* local, 0 stands for ""
    turn_code_result,        \* local, 0 stands for ""
    file_list_data,          \* local, 0 stands for None
    chunks_read,             \* chunks read in the current turn
    turn_outcome,            \* how the last turn left the loop body
    tool_requests,           \* history: function calls received in the turn
    tool_batches,            \* history: send_tool_response calls of the turn
    dispatched,              \* history: calls executed in the turn, with status
    received,                \* history: counts of the parts received in the turn
    signals,                 \* history: Qt signals emitted in the turn
    \* ---- queues --------------------------------------------------------
    out_queue_gemini,
    response_queue_tts,
    audio_in_queue_player,
    text_input_queue,
    \* ---- outbound path -------------------------------------------------
    video_mode,              \* AI_Core.video_mode
    latest_frame,            \* AI_Core.latest_frame, 0 stands for None
    mic_pc, mic_data,        \* listen_audio and the chunk it holds
    frames_pc, frames_data,  \* send_frames_to_gemini and the image it holds
    send_pc, send_msg,       \* send_realtime and the item it holds
    mic_reads,               \* history: chunks read from the microphone
    images_made,             \* history: images encoded
    enqueued,                \* history: items put on out_queue_gemini
    forwarded,               \* history: send_realtime_input calls
    dropped,                 \* history: items a task held when it ended
    \* ---- speech path ---------------------------------------------------
    text_pc, text_item,      \* process_text_input_queue and the text it holds
    play_pc, bytestream,     \* play_audio and the buffer it holds
    texts_submitted,         \* history: handle_user_text calls
    drained,                 \* history: buffers the last user text discarded
    client_turns,            \* history: send_client_content calls
    served_response,         \* the response the remote session is streaming
    written,                 \* history: buffers written to the output device
    \* ---- tts -----------------------------------------------------------
    tts_pc,                  \* position of the tts coroutine
    text_chunk,              \* the local text_chunk
    listen_pc,               \* position of the episode's listen() task
    websocket,               \* the episode's connection: none, open, closed
    ws_connects,             \* history: connections opened in the episode
    ws_sent,                 \* history: messages sent in the episode
    tts_taken,               \* history: items the episode took from the queue
    tts_signals,             \* history: signals emitted by tts
    episode_turns,           \* history: user turns sent before the episode
    episode_outcome,         \* history: how the last episode ended
    listener_at_close,       \* history: listen()'s position at the close
    fragments_fed,           \* history: fragments put on response_queue_tts
    sentinels_fed,           \* history: sentinels put on response_queue_tts
    \* ---- stop() --------------------------------------------------------
    stop_pc,                 \* position of the UI thread inside stop()
    shutdown_pc,             \* position of the shutdown_async_tasks coroutine
    audio_stream,            \* AI_Core.audio_stream: none, active, closed
    stop_calls,              \* history: calls of stop()
    stop_log,                \* history: the steps of stop() and of shutdown
    \* ---- stream_video_to_gui, set_video_mode --------------------------
    video_pc,                \* position of the stream_video_to_gui coroutine
    video_capture,           \* the local video_capture: none, opened, unopened
    iteration_mode,          \* the video_mode the current iteration has read
    cameras_held,            \* camera devices opened and not released
    captures_opened,         \* history: cv2.VideoCapture(0) calls
    mode_switches,           \* history: set_video_mode calls
    mode_arg,                \* history: the argument of the last call
    iteration_end,           \* history: how the loop's current iteration ended
    \* ---- around the event loop ----------------------------------------
    runner_pc,               \* the backend thread: start_event_loop, run()
    worker_reading,          \* a worker thread is inside audio_stream.read
    mic_failed,              \* history: a microphone read has raised
    pending_puts             \* put coroutines handed to the loop, not yet run

recv_vars == <<recv_pc, chunk_calls, fc_index, function_responses, turn_urls,
               turn_code_content, turn_code_result, file_list_data,
               chunks_read, turn_outcome, tool_requests, tool_batches,
               dispatched, received, signals>>
mux_vars == <<video_mode, latest_frame, mic_pc, mic_data, frames_pc, frames_data, send_pc,
              send_msg, mic_reads, images_made, enqueued, forwarded,
              dropped, out_queue_gemini>>
speech_vars == <<text_pc, text_item, play_pc, bytestream, texts_submitted,
                 drained,
                 client_turns, served_response, written, text_input_queue>>
tts_vars == <<tts_pc, text_chunk, listen_pc, websocket, ws_connects, ws_sent,
              tts_taken, tts_signals, episode_turns, episode_outcome,
              listener_at_close, fragments_fed, sentinels_fed>>
stop_vars == <<stop_pc, shutdown_pc, audio_stream, stop_calls, stop_log>>
video_vars == <<video_pc, video_capture, iteration_mode, cameras_held,
                captures_opened, mode_switches, mode_arg, iteration_end>>
thread_vars == <<runner_pc, worker_reading, mic_failed, pending_puts>>
vars == <<is_running, cancelled, recv_vars, mux_vars, speech_vars, tts_vars,
          stop_vars, video_vars, thread_vars, response_queue_tts,
          audio_in_queue_player>>

-----------------------------------------------------------------------------
(* Bounds of the model. *)

\* chunks the remote session streams in one turn
MaxChunks == 2

-----------------------------------------------------------------------------
(* Helpers. *)

Range(s) == {s[i] : i \in 1..Len(s)}

RECURSIVE SelectSig(_, _)
\* the entries of the signal history whose name is in names, in order
SelectSig(s, names) ==
    IF s = <<>> THEN <<>>
    ELSE IF Head(s).sig \in names
         THEN <<Head(s)>> \o SelectSig(Tail(s), names)
         ELSE SelectSig(Tail(s), names)

\* one emitted signal: its name and its arguments
Sig(name, a, b, urls) == [sig |-> name, a |-> a, b |-> b, urls |-> urls]
Emit(name) == Sig(name, 0, 0, {})


-----------------------------------------------------------------------------
(* The remote session's inputs to receive_text. *)

\* the function names of the declared tool schema
DeclaredFunctions ==
    {"create_folder", "create_file", "edit_file", "list_files", "read_file",
     "open_application", "open_website", "open_direct_youtube",
     "search_and_open", "close_application", "search_file", "open_file",
     "move_file"}

\* fc.args is a mapping ("given"), a mapping that names a file by filename
\* and has no file_path ("filename"), or None ("missing")
Call(name, args) == [name |-> name, args |-> args]

\* the function_calls lists a tool-call chunk may carry
CallLists ==
    { <<Call("list_files", "given")>>,
      <<Call("create_file", "given")>>,
      <<Call("open_file", "missing")>>,
      <<Call("open_file", "filename")>>,
      <<Call("undeclared_function", "missing")>>,
      <<Call("search_file", "given"), Call("list_files", "given")>>,
      <<Call("list_files", "given"), Call("create_file", "missing")>> }

\* a chunk of server content: the web uri of each of its grounding_chunks
\* ("" when it has none) and its model_turn.parts, each part named by the
\* attribute it carries
Content(grounding, parts) == [grounding |-> grounding, parts |-> parts]

\* the server-content chunks of a turn
ContentChunks ==
    { Content(<<>>, <<"text">>),
      Content(<<>>, <<"inline_data", "text">>),
      Content(<<"u1">>, <<"executable_code", "code_execution_result">>),
      Content(<<>>, <<"executable_code", "text", "text">>),
      Content(<<"", "u2">>, <<"text">>),
      Content(<<"">>, <<"code_execution_result">>) }

\* the server-content chunks of an audio-only response
AudioChunks == { Content(<<>>, <<"inline_data">>) }

\* the same, with chunks whose inline_data holds no bytes ("inline_data_empty")
PlayerChunks ==
    AudioChunks \cup { Content(<<>>, <<"inline_data_empty">>),
                       Content(<<>>, <<"inline_data_empty", "inline_data">>) }

-----------------------------------------------------------------------------
(* receive_text: the tool dispatch. *)

\* every branch of the dispatch starts with args.get(...): with fc.args None
\* that raises AttributeError; an undeclared name matches no branch
DispatchRaises(fc) == fc.name \in DeclaredFunctions /\ fc.args = "missing"

\* result["status"] of the helper (or of the inline code) run for a call;
\* "none" is the empty result {} an undeclared name is answered with
HelperStatuses(name) ==
    CASE name \in {"create_folder", "create_file"} ->
             {"success", "error", "skipped"}
      [] name \in {"edit_file", "read_file", "list_files", "move_file",
                   "open_website", "open_direct_youtube", "search_and_open",
                   "open_application"} ->
             {"success", "error"}
      [] name \in {"close_application", "open_file"} ->
             {"success", "error", "not_found"}
      [] name = "search_file" -> {"success", "not_found"}
      [] OTHER -> {"none"}

\* lines 851, 865: the calls whose file search runs in a worker thread
\* (await asyncio.to_thread): search_file, and open_file given a filename
\* and no file_path.  Every other helper runs inside the coroutine.
Offloaded(fc) ==
    \/ fc.name = "search_file"
    \/ fc.name = "open_file" /\ fc.args = "filename"

\* lines 851, 865: what the search in the worker thread comes to; nothing
\* catches an exception it raises
SearchOutcomes == {"matches", "no_match", "raises"}

\* lines 852-855, 866-883: result["status"] after the search
SearchStatuses(name, outcome) ==
    CASE outcome = "no_match" -> {"not_found"}
      [] name = "search_file" -> {"success"}
      [] OTHER -> {"success", "error", "not_found"}

\* lines 848, 864: the signal emitted before the search is handed over
SignalsBeforeSearch == <<Emit("tool_activity_received")>>

\* the signals the dispatch of one call emits, in order (for search_file:
\* before and after the search)
ToolSignals(name, status) ==
    CASE name \in {"create_folder", "create_file", "edit_file", "read_file",
                   "open_website", "open_direct_youtube", "search_and_open"} ->
             <<Emit("tool_activity_received")>>
      [] name \in {"open_application", "close_application", "move_file"} ->
             <<Emit("tool_activity_received"), Emit("tool_activity_received")>>
      [] name = "search_file" ->
             <<Emit("tool_activity_received"), Emit("file_search_received")>>
      [] name = "open_file" ->
             IF status = "success" THEN <<Emit("file_opened_received")>>
             ELSE <<Emit("tool_activity_received")>>
      [] OTHER -> <<>>

\* lines 856, 868-883: the signals emitted once the search has returned
SignalsAfterSearch(name, outcome, status) ==
    CASE name = "search_file" -> <<Emit("file_search_received")>>
      [] OTHER ->
           (IF outcome = "matches" THEN <<Emit("file_search_received")>>
            ELSE <<>>) \o ToolSignals(name, status)

\* line 903: the entry appended to function_responses for a call
FunctionResponse(fc, status) ==
    [id |-> fc.id, name |-> fc.name, status |-> status]

\* lines 778-781: the listing kept for the turn, named by the call it came from
FileListAfter(old, fc, status) ==
    IF fc.name = "list_files" /\ status = "success" THEN fc.id ELSE old

-----------------------------------------------------------------------------
(* receive_text: one chunk of server content (lines 906-918). *)

\* buffers the playback queue may hold, and buffers written to the output
\* device, before the remote session sends no further audio (the queue
\* itself, asyncio.Queue(), is unbounded)
MaxQueued == 2
MaxWritten == 2

\* an audio buffer: the response it belongs to, the user turns sent
\* before it arrived, and whether it holds any bytes
Buffer(resp, turns) == [resp |-> resp, turns |-> turns, bytes |-> 1]

\* the buffer of an inline_data whose data is b""
Empty(buffer) == [buffer EXCEPT !.bytes = 0]
NoBuffer == Buffer(0, 0)

NoParts == [text |-> 0, audio |-> 0, code |-> 0, result |-> 0, uris |-> {}]

\* lines 907-909: the uris added to turn_urls
UrisOf(grounding) == {u \in Range(grounding) : u # ""}

\* a variant of PartStep in which the first code body and the first output of
\* the turn are kept
PartStepFirst(part, acc, buffer) ==
    CASE part = "executable_code" ->
             [acc EXCEPT !.rec.code = @ + 1,
                         !.code = IF @ = 0 THEN acc.rec.code + 1 ELSE @]
      [] part = "code_execution_result" ->
             [acc EXCEPT !.rec.result = @ + 1,
                         !.result = IF @ = 0 THEN acc.rec.result + 1 ELSE @]
      [] part = "inline_data" ->
             [acc EXCEPT !.rec.audio = @ + 1,
                         !.player = Append(@, buffer),
                         !.sigs = Append(@, Emit("speaking_started"))]
      [] part = "inline_data_empty" ->
             [acc EXCEPT !.rec.audio = @ + 1,
                         !.player = Append(@, Empty(buffer)),
                         !.sigs = Append(@, Emit("speaking_started"))]
      [] part = "text" ->
             [acc EXCEPT !.rec.text = @ + 1,
                         !.sigs = Append(@, Sig("text_received",
                                                acc.rec.text + 1, 0, {}))]
      [] OTHER -> acc

\* lines 912-918 for one part.  A text delta, a code body and an
\* output are named by their ordinal among the parts of their kind in the
\* turn; an audio buffer by the response it belongs to and by the number of
\* user turns sent before it arrived.
PartStep(part, acc, buffer) ==
    CASE part = "executable_code" ->
             [acc EXCEPT !.rec.code = @ + 1, !.code = acc.rec.code + 1]
      [] part = "code_execution_result" ->
             [acc EXCEPT !.rec.result = @ + 1, !.result = acc.rec.result + 1]
      [] part = "inline_data" ->
             [acc EXCEPT !.rec.audio = @ + 1,
                         !.player = Append(@, buffer),
                         !.sigs = Append(@, Emit("speaking_started"))]
      [] part = "inline_data_empty" ->
             [acc EXCEPT !.rec.audio = @ + 1,
                         !.player = Append(@, Empty(buffer)),
                         !.sigs = Append(@, Emit("speaking_started"))]
      [] part = "text" ->
             [acc EXCEPT !.rec.text = @ + 1,
                         !.sigs = Append(@, Sig("text_received",
                                                acc.rec.text + 1, 0, {}))]
      [] OTHER -> acc

RECURSIVE ProcessParts(_, _, _)
\* lines 911-918: the loop over model_turn.parts
ProcessParts(parts, acc, buffer) ==
    IF parts = <<>> THEN acc
    ELSE ProcessParts(Tail(parts), PartStep(Head(parts), acc, buffer), buffer)

-----------------------------------------------------------------------------
(* receive_text: the end of a turn (lines 919-925). *)

\* a variant of ActivitySignals that emits every result the turn collected
ActivitySignalsEvery(files, code, result, urls) ==
    IF files = 0 /\ code = 0 /\ urls = {}
    THEN <<Sig("code_being_executed", 0, 0, {}),
           Sig("search_results_received", 0, 0, {}),
           Sig("file_list_received", 0, 0, {})>>
    ELSE (IF files # 0 THEN <<Sig("file_list_received", files, 0, {})>>
          ELSE <<>>)
         \o (IF code # 0 THEN <<Sig("code_being_executed", code, result, {})>>
             ELSE <<>>)
         \o (IF urls # {} THEN <<Sig("search_results_received", 0, 0, urls)>>
             ELSE <<>>)

\* a variant of ActivitySignals that emits one empty signal for an empty turn
ActivitySignalsOneEmpty(files, code, result, urls) ==
    IF files # 0 THEN <<Sig("file_list_received", files, 0, {})>>
    ELSE IF code # 0 THEN <<Sig("code_being_executed", code, result, {})>>
    ELSE IF urls # {} THEN <<Sig("search_results_received", 0, 0, urls)>>
    ELSE <<Sig("code_being_executed", 0, 0, {})>>

\* lines 919-923: the activity signals, by priority
ActivitySignals(files, code, result, urls) ==
    IF files # 0 THEN <<Sig("file_list_received", files, 0, {})>>
    ELSE IF code # 0 THEN <<Sig("code_being_executed", code, result, {})>>
    ELSE IF urls # {} THEN <<Sig("search_results_received", 0, 0, urls)>>
    ELSE <<Sig("code_being_executed", 0, 0, {}),
           Sig("search_results_received", 0, 0, {}),
           Sig("file_list_received", 0, 0, {})>>

\* lines 924-925
ClosingSignals == <<Emit("end_of_turn"), Emit("speaking_stopped")>>

-----------------------------------------------------------------------------
(* receive_text: the coroutine (lines 737-928). *)

\* a variant of AfterException that leaves the loop whatever the flag
AfterExceptionBreaks == "done"

\* lines 926-928: the handler of an exception raised in the loop body
AfterException == IF is_running THEN "while" ELSE "done"

recv_keep_locals ==
    UNCHANGED <<turn_urls, turn_code_content, turn_code_result, file_list_data>>
recv_keep_calls == UNCHANGED <<chunk_calls, fc_index, function_responses>>
recv_keep_history ==
    UNCHANGED <<tool_requests, tool_batches, dispatched, received, signals>>
recv_frame ==
    UNCHANGED <<is_running, cancelled, mux_vars, speech_vars, tts_vars,
                stop_vars, video_vars, thread_vars, response_queue_tts>>

\* lines 738-741: the loop test, the reset of the turn's locals, receive()
receive_text_while ==
    /\ recv_pc \in {"start", "while"}
    /\ IF is_running
       THEN /\ recv_pc' = "next_chunk"
            /\ turn_urls' = {}
            /\ turn_code_content' = 0
            /\ turn_code_result' = 0
            /\ file_list_data' = 0
            /\ chunks_read' = 0
            /\ turn_outcome' = "open"
            /\ tool_requests' = <<>>
            /\ tool_batches' = <<>>
            /\ dispatched' = <<>>
            /\ received' = NoParts
            /\ signals' = <<>>
       ELSE /\ recv_pc' = "done"
            /\ recv_keep_locals
            /\ recv_keep_history
            /\ UNCHANGED <<chunks_read, turn_outcome>>
    /\ recv_keep_calls
    /\ UNCHANGED audio_in_queue_player
    /\ recv_frame

\* the ids the remote session gives the calls of a chunk: distinct in a turn
WithIds(calls, base) ==
    [i \in 1..Len(calls) |->
        [id |-> base + i, name |-> calls[i].name, args |-> calls[i].args]]

\* lines 742-744: a chunk with tool calls arrives
receive_text_tool_chunk ==
    /\ recv_pc = "next_chunk"
    /\ chunks_read < MaxChunks
    /\ \E calls \in CallLists :
          /\ chunk_calls' = WithIds(calls, Len(tool_requests))
          /\ tool_requests' = tool_requests \o
                [i \in 1..Len(calls) |->
                    [id |-> Len(tool_requests) + i, name |-> calls[i].name]]
    /\ function_responses' = <<>>
    /\ fc_index' = 1
    /\ chunks_read' = chunks_read + 1
    /\ recv_pc' = "dispatch"
    /\ recv_keep_locals
    /\ UNCHANGED <<turn_outcome, tool_batches, dispatched, received, signals,
                   audio_in_queue_player>>
    /\ recv_frame

\* lines 745-903: one iteration of the loop over the function calls
receive_text_dispatch ==
    /\ recv_pc = "dispatch"
    /\ fc_index <= Len(chunk_calls)
    /\ LET fc == chunk_calls[fc_index] IN
       IF DispatchRaises(fc)
       THEN /\ recv_pc' = AfterException
            /\ turn_outcome' = "failed"
            /\ UNCHANGED <<fc_index, function_responses, file_list_data,
                           dispatched, signals>>
       ELSE IF Offloaded(fc)
       THEN /\ recv_pc' = "search"
            /\ signals' = signals \o SignalsBeforeSearch
            /\ UNCHANGED <<fc_index, function_responses, file_list_data,
                           dispatched, turn_outcome>>
       ELSE \E status \in HelperStatuses(fc.name) :
            /\ signals' = signals \o ToolSignals(fc.name, status)
            /\ file_list_data' = FileListAfter(file_list_data, fc, status)
            /\ function_responses' =
                   Append(function_responses, FunctionResponse(fc, status))
            /\ dispatched' = Append(dispatched,
                   [id |-> fc.id, name |-> fc.name, status |-> status])
            /\ fc_index' = fc_index + 1
            /\ UNCHANGED <<recv_pc, turn_outcome>>
    /\ UNCHANGED <<chunk_calls, turn_urls, turn_code_content, turn_code_result,
                   chunks_read, tool_requests, tool_batches, received,
                   audio_in_queue_player>>
    /\ recv_frame

\* lines 851-856, 865-883: the search returns from its worker thread and the
\* call's result is appended; or the search raises
receive_text_searched ==
    /\ recv_pc = "search"
    /\ LET fc == chunk_calls[fc_index] IN
       \E outcome \in SearchOutcomes :
          IF outcome = "raises"
          THEN /\ recv_pc' = AfterException
               /\ turn_outcome' = "failed"
               /\ UNCHANGED <<fc_index, function_responses, dispatched,
                              signals>>
          ELSE \E status \in SearchStatuses(fc.name, outcome) :
               /\ signals' = signals \o
                      SignalsAfterSearch(fc.name, outcome, status)
               /\ function_responses' =
                      Append(function_responses, FunctionResponse(fc, status))
               /\ dispatched' = Append(dispatched,
                      [id |-> fc.id, name |-> fc.name, status |-> status])
               /\ fc_index' = fc_index + 1
               /\ recv_pc' = "dispatch"
               /\ UNCHANGED turn_outcome
    /\ UNCHANGED <<chunk_calls, turn_urls, turn_code_content, turn_code_result,
                   file_list_data, chunks_read, tool_requests, tool_batches,
                   received, audio_in_queue_player>>
    /\ recv_frame

\* line 904: send_tool_response is issued with the collected responses
receive_text_send_tool_response ==
    /\ recv_pc = "dispatch"
    /\ fc_index > Len(chunk_calls)
    /\ tool_batches' = Append(tool_batches, function_responses)
    /\ recv_pc' = "send_tool_response"
    /\ recv_keep_locals
    /\ recv_keep_calls
    /\ UNCHANGED <<chunks_read, turn_outcome, tool_requests, dispatched,
                   received, signals, audio_in_queue_player>>
    /\ recv_frame

\* lines 904-905: the send returns and the loop continues with the next
\* chunk, or the send raises
receive_text_tool_response_sent ==
    /\ recv_pc = "send_tool_response"
    /\ \/ /\ recv_pc' = "next_chunk"
          /\ UNCHANGED turn_outcome
       \/ /\ recv_pc' = AfterException
          /\ turn_outcome' = "failed"
    /\ recv_keep_locals
    /\ recv_keep_calls
    /\ recv_keep_history
    /\ UNCHANGED <<chunks_read, audio_in_queue_player>>
    /\ recv_frame

\* lines 906-918: a chunk with server content arrives
receive_text_content(Chunks) ==
    /\ recv_pc = "next_chunk"
    /\ chunks_read < MaxChunks
    /\ Len(written) < MaxWritten
    /\ \E chunk \in Chunks :
          LET grounding == chunk.grounding
              acc == ProcessParts(chunk.parts,
                        [code |-> turn_code_content,
                         result |-> turn_code_result,
                         player |-> audio_in_queue_player,
                         sigs |-> signals,
                         rec |-> [received EXCEPT
                                    !.uris = @ \cup UrisOf(grounding)]],
                        Buffer(served_response, Len(client_turns)))
          IN /\ Len(acc.player) <= MaxQueued
             /\ turn_urls' = turn_urls \cup UrisOf(grounding)
             /\ turn_code_content' = acc.code
             /\ turn_code_result' = acc.result
             /\ audio_in_queue_player' = acc.player
             /\ signals' = acc.sigs
             /\ received' = acc.rec
    /\ chunks_read' = chunks_read + 1
    /\ recv_keep_calls
    /\ UNCHANGED <<recv_pc, file_list_data, turn_outcome, tool_requests,
                   tool_batches, dispatched>>
    /\ recv_frame

\* lines 919-925: the stream of the turn ends
receive_text_turn_end ==
    /\ recv_pc = "next_chunk"
    /\ signals' = signals
            \o ActivitySignals(file_list_data, turn_code_content,
                               turn_code_result, turn_urls)
            \o ClosingSignals
    /\ turn_outcome' = "ended"
    /\ recv_pc' = "while"
    /\ recv_keep_locals
    /\ recv_keep_calls
    /\ UNCHANGED <<chunks_read, tool_requests, tool_batches, dispatched,
                   received, audio_in_queue_player>>
    /\ recv_frame

\* lines 926-928: reading the stream raises
receive_text_stream_error ==
    /\ recv_pc = "next_chunk"
    /\ recv_pc' = AfterException
    /\ turn_outcome' = "failed"
    /\ recv_keep_locals
    /\ recv_keep_calls
    /\ recv_keep_history
    /\ UNCHANGED <<chunks_read, audio_in_queue_player>>
    /\ recv_frame

-----------------------------------------------------------------------------
(* The outbound path: listen_audio, send_frames_to_gemini, send_realtime. *)

\* line 322: asyncio.Queue(maxsize=20)
QueueMaxSize == 20

\* chunks read from the microphone, and images encoded, in one run
MaxMicReads == 21
MaxImages == 1

NoItem == [mime_type |-> "none", n |-> 0]
AudioItem(n) == [mime_type |-> "audio/pcm", n |-> n]
ImageItem(n) == [mime_type |-> "image/jpeg", n |-> n]

\* a variant of QueueFull that lets one item more in
QueueFullLate(q) == Len(q) > QueueMaxSize

\* asyncio.Queue.full() of out_queue_gemini
QueueFull(q) == Len(q) >= QueueMaxSize

\* line 933: the loop test made after a put
LoopOrDone(pc) == IF is_running THEN pc ELSE "done"

mux_frame ==
    UNCHANGED <<is_running, cancelled, recv_vars, speech_vars, tts_vars,
                stop_vars, video_vars, thread_vars, response_queue_tts,
                audio_in_queue_player>>

\* lines 931-932: the task first runs and opens the input stream; or
\* opening the device raises and the task ends
listen_audio_open ==
    /\ mic_pc = "start"
    /\ \/ audio_stream' = "active" /\ mic_pc' = "read"
       \/ audio_stream' = audio_stream /\ mic_pc' = "done"
    /\ UNCHANGED <<video_mode, latest_frame, mic_data, frames_pc, frames_data,
                   send_pc, send_msg, mic_reads, images_made, enqueued,
                   forwarded, dropped, out_queue_gemini>>
    /\ UNCHANGED <<is_running, cancelled, recv_vars, speech_vars, tts_vars,
                   stop_pc, shutdown_pc, stop_calls, stop_log, video_vars, thread_vars,
                   response_queue_tts, audio_in_queue_player>>

\* lines 933-934: the loop test, then the read in a worker thread returns
listen_audio_read ==
    /\ mic_pc = "read"
    /\ IF is_running
       THEN /\ mic_reads < MaxMicReads
            /\ mic_reads' = mic_reads + 1
            /\ mic_data' = AudioItem(mic_reads + 1)
            /\ mic_pc' = "check"
       ELSE /\ mic_pc' = "done"
            /\ UNCHANGED <<mic_reads, mic_data>>
    /\ UNCHANGED <<video_mode, latest_frame, frames_pc, frames_data, send_pc,
                   send_msg, images_made, enqueued, forwarded, dropped,
                   out_queue_gemini>>
    /\ mux_frame

\* lines 935-936: the test of the running flag, then put; put suspends on a
\* full queue
listen_audio_check ==
    /\ mic_pc = "check"
    /\ IF ~is_running
       THEN /\ mic_pc' = "done"
            /\ dropped' = dropped \cup {mic_data}
            /\ mic_data' = NoItem
            /\ UNCHANGED <<out_queue_gemini, enqueued>>
       ELSE IF QueueFull(out_queue_gemini)
       THEN /\ mic_pc' = "put"
            /\ UNCHANGED <<mic_data, dropped, out_queue_gemini, enqueued>>
       ELSE /\ out_queue_gemini' = Append(out_queue_gemini, mic_data)
            /\ enqueued' = Append(enqueued, mic_data)
            /\ mic_data' = NoItem
            /\ mic_pc' = "read"
            /\ UNCHANGED dropped
    /\ UNCHANGED <<video_mode, latest_frame, frames_pc, frames_data, send_pc,
                   send_msg, mic_reads, images_made, forwarded>>
    /\ mux_frame

\* line 936: a suspended put goes on once the queue has a free slot
listen_audio_put ==
    /\ mic_pc = "put"
    /\ ~QueueFull(out_queue_gemini)
    /\ out_queue_gemini' = Append(out_queue_gemini, mic_data)
    /\ enqueued' = Append(enqueued, mic_data)
    /\ mic_data' = NoItem
    /\ mic_pc' = "read"
    /\ UNCHANGED <<video_mode, latest_frame, frames_pc, frames_data, send_pc,
                   send_msg, mic_reads, images_made, forwarded, dropped>>
    /\ mux_frame

\* The read of lines 933-934 in its two steps, with the worker thread that
\* carries it out.
mic_frame ==
    UNCHANGED <<is_running, cancelled, recv_vars, speech_vars, tts_vars,
                stop_vars, video_vars, response_queue_tts,
                audio_in_queue_player>>

mic_keep_mux ==
    UNCHANGED <<video_mode, latest_frame, frames_pc, frames_data, send_pc,
                send_msg, images_made, enqueued, forwarded, dropped,
                out_queue_gemini>>

\* lines 933-934: the loop test; with the flag true the read is handed to a
\* worker thread and the task is suspended until it returns
listen_audio_read_start ==
    /\ mic_pc = "read"
    /\ IF is_running
       THEN /\ mic_reads < MaxMicReads
            /\ mic_pc' = "reading"
            /\ worker_reading' = TRUE
       ELSE /\ mic_pc' = "done"
            /\ UNCHANGED worker_reading
    /\ UNCHANGED <<mic_reads, mic_data, runner_pc, mic_failed, pending_puts>>
    /\ mic_keep_mux
    /\ mic_frame

\* lines 933-936: no handler surrounds the read: an exception it raises
\* leaves listen_audio, and the task ends
AfterReadFailure == "done"

\* line 934: the worker's read returns a chunk, or raises
listen_audio_read_return ==
    /\ mic_pc = "reading"
    /\ worker_reading' = FALSE
    /\ \/ /\ mic_reads' = mic_reads + 1
          /\ mic_data' = AudioItem(mic_reads + 1)
          /\ mic_pc' = "check"
          /\ UNCHANGED mic_failed
       \/ /\ mic_pc' = AfterReadFailure
          /\ mic_failed' = TRUE
          /\ UNCHANGED <<mic_reads, mic_data>>
    /\ UNCHANGED <<runner_pc, pending_puts>>
    /\ mic_keep_mux
    /\ mic_frame

\* line 934 after a task.cancel(): the cancelled task is no longer waiting,
\* and the read goes on in its worker thread until the device returns
worker_read_ends ==
    /\ mic_pc = "done"
    /\ worker_reading
    /\ worker_reading' = FALSE
    /\ UNCHANGED <<mic_pc, mic_reads, mic_data, runner_pc, mic_failed,
                   pending_puts>>
    /\ mic_keep_mux
    /\ mic_frame

\* lines 689-710, camera and screen branches: a frame is captured and
\* published as the latest frame
stream_video_to_gui_frame ==
    /\ is_running
    /\ ~cancelled
    /\ video_mode \in {"camera", "screen"}
    /\ latest_frame' = 1
    /\ UNCHANGED <<video_mode, mic_pc, mic_data, frames_pc, frames_data,
                   send_pc, send_msg, mic_reads, images_made, enqueued,
                   forwarded, dropped, out_queue_gemini>>
    /\ mux_frame

\* a variant of ShouldSample that samples in every mode
ShouldSampleAnyMode(mode, frame) == frame # 0

\* line 728: the test send_frames_to_gemini makes before it encodes an image
ShouldSample(mode, frame) == mode # "none" /\ frame # 0

\* lines 727-735: the sleep ends; with a mode and a frame an image is encoded
\* and put, and put suspends on a full queue; then the loop test of line 726
send_frames_to_gemini_tick ==
    /\ frames_pc = "sleep"
    /\ IF ShouldSample(video_mode, latest_frame)
       THEN /\ images_made < MaxImages
            /\ images_made' = images_made + 1
            /\ IF QueueFull(out_queue_gemini)
               THEN /\ frames_data' = ImageItem(images_made + 1)
                    /\ frames_pc' = "put"
                    /\ UNCHANGED <<out_queue_gemini, enqueued>>
               ELSE /\ out_queue_gemini' =
                          Append(out_queue_gemini, ImageItem(images_made + 1))
                    /\ enqueued' = Append(enqueued, ImageItem(images_made + 1))
                    /\ frames_pc' = LoopOrDone("sleep")
                    /\ UNCHANGED frames_data
       ELSE /\ frames_pc' = LoopOrDone("sleep")
            /\ UNCHANGED <<images_made, frames_data, out_queue_gemini,
                           enqueued>>
    /\ UNCHANGED <<video_mode, latest_frame, mic_pc, mic_data, send_pc,
                   send_msg, mic_reads, forwarded, dropped>>
    /\ mux_frame

\* line 735: a suspended put goes on once the queue has a free slot
send_frames_to_gemini_put ==
    /\ frames_pc = "put"
    /\ ~QueueFull(out_queue_gemini)
    /\ out_queue_gemini' = Append(out_queue_gemini, frames_data)
    /\ enqueued' = Append(enqueued, frames_data)
    /\ frames_data' = NoItem
    /\ frames_pc' = LoopOrDone("sleep")
    /\ UNCHANGED <<video_mode, latest_frame, mic_pc, mic_data, send_pc,
                   send_msg, mic_reads, images_made, forwarded, dropped>>
    /\ mux_frame

\* The body of send_frames_to_gemini in its two parts: between them the
\* coroutine does not suspend, so no other coroutine runs, and another thread
\* does.

\* lines 727-728: the sleep ends and the mode and the latest frame are tested
send_frames_to_gemini_test ==
    /\ frames_pc = "sleep"
    /\ IF ShouldSample(video_mode, latest_frame)
       THEN /\ images_made < MaxImages
            /\ frames_pc' = "encode"
       ELSE /\ frames_pc' = LoopOrDone("sleep")
    /\ UNCHANGED <<video_mode, latest_frame, mic_pc, mic_data, frames_data,
                   send_pc, send_msg, mic_reads, images_made, enqueued,
                   forwarded, dropped, out_queue_gemini>>
    /\ mux_frame

\* lines 729-735: self.latest_frame is read again and encoded, and the image
\* is put; with latest_frame None cv2.cvtColor raises, nothing catches it and
\* the task ends
send_frames_to_gemini_encode ==
    /\ frames_pc = "encode"
    /\ IF latest_frame = 0
       THEN /\ frames_pc' = "done"
            /\ UNCHANGED <<images_made, frames_data, out_queue_gemini,
                           enqueued>>
       ELSE /\ images_made' = images_made + 1
            /\ IF QueueFull(out_queue_gemini)
               THEN /\ frames_data' = ImageItem(images_made + 1)
                    /\ frames_pc' = "put"
                    /\ UNCHANGED <<out_queue_gemini, enqueued>>
               ELSE /\ out_queue_gemini' =
                          Append(out_queue_gemini, ImageItem(images_made + 1))
                    /\ enqueued' = Append(enqueued, ImageItem(images_made + 1))
                    /\ frames_pc' = LoopOrDone("sleep")
                    /\ UNCHANGED frames_data
    /\ UNCHANGED <<video_mode, latest_frame, mic_pc, mic_data, send_pc,
                   send_msg, mic_reads, forwarded, dropped>>
    /\ mux_frame

\* a variant of QueueGet that takes the newest item
QueueGetNewest(q) == [item |-> q[Len(q)], rest |-> SubSeq(q, 1, Len(q) - 1)]

\* line 940: the item get() returns, and what is left in the queue
QueueGet(q) == [item |-> Head(q), rest |-> Tail(q)]

\* lines 942-949: the items send_realtime_input is called for
IsForwarded(msg) == msg.mime_type \in {"audio/pcm", "image/jpeg"}

\* lines 940-949: get() returns an item; the running flag is tested; the
\* item is handed to send_realtime_input
send_realtime_get ==
    /\ send_pc = "get"
    /\ out_queue_gemini # <<>>
    /\ LET got == QueueGet(out_queue_gemini) IN
       /\ out_queue_gemini' = got.rest
       /\ IF ~is_running
          THEN /\ send_pc' = "done"
               /\ dropped' = dropped \cup {got.item}
               /\ UNCHANGED <<send_msg, forwarded>>
          ELSE /\ send_msg' = got.item
               /\ forwarded' = IF IsForwarded(got.item)
                               THEN Append(forwarded, got.item)
                               ELSE forwarded
               /\ send_pc' = "send"
               /\ UNCHANGED dropped
    /\ UNCHANGED <<video_mode, latest_frame, mic_pc, mic_data, frames_pc,
                   frames_data, mic_reads, images_made, enqueued>>
    /\ mux_frame

\* lines 943-950, 939: the send returns, task_done, the loop test; or the
\* send raises and the task ends
send_realtime_sent ==
    /\ send_pc = "send"
    /\ \/ send_pc' = LoopOrDone("get")
       \/ send_pc' = "done"
    /\ send_msg' = NoItem
    /\ UNCHANGED <<video_mode, latest_frame, mic_pc, mic_data, frames_pc,
                   frames_data, mic_reads, images_made, enqueued, forwarded,
                   dropped, out_queue_gemini>>
    /\ mux_frame

-----------------------------------------------------------------------------
(* The speech path: handle_user_text, process_text_input_queue, play_audio. *)

\* user texts submitted in one run
MaxTexts == 1

speech_frame ==
    UNCHANGED <<is_running, cancelled, recv_vars, mux_vars, tts_vars,
                stop_vars, video_vars, thread_vars>>

\* lines 1029-1031: the UI thread hands a text to the event loop, which puts
\* it on text_input_queue.  Texts are named 1, 2, ...; 0 stands for None.
handle_user_text ==
    /\ is_running
    /\ ~cancelled
    /\ texts_submitted < MaxTexts
    /\ texts_submitted' = texts_submitted + 1
    /\ text_input_queue' = Append(text_input_queue, texts_submitted + 1)
    /\ UNCHANGED <<text_pc, text_item, play_pc, bytestream, drained,
                   client_turns, served_response, written,
                   response_queue_tts, audio_in_queue_player>>
    /\ speech_frame

\* texts handed to the event loop in one run of the hand-off in two steps
MaxSubmitted == 2

\* a variant of NextPut in which the loop runs the newest callback first
NextPutNewest(p) == [item |-> p[Len(p)], rest |-> SubSeq(p, 1, Len(p) - 1)]

\* line 1031: run_coroutine_threadsafe hands the coroutine to the loop with
\* call_soon_threadsafe, and the loop runs its callbacks in the order they
\* were handed over
NextPut(p) == [item |-> Head(p), rest |-> Tail(p)]

\* lines 1030-1031 on the UI thread: with the flag true and the loop running
\* the coroutine text_input_queue.put(text) is created and handed to the
\* event loop; the queue itself is not touched
handle_user_text_threadsafe ==
    /\ is_running
    /\ runner_pc = "gather"
    /\ texts_submitted < MaxSubmitted
    /\ texts_submitted' = texts_submitted + 1
    /\ pending_puts' = Append(pending_puts, texts_submitted + 1)
    /\ UNCHANGED <<text_pc, text_item, play_pc, bytestream, drained,
                   client_turns, served_response, written, text_input_queue,
                   response_queue_tts, audio_in_queue_player>>
    /\ UNCHANGED <<runner_pc, worker_reading, mic_failed>>
    /\ UNCHANGED <<is_running, cancelled, recv_vars, mux_vars, tts_vars,
                   stop_vars, video_vars>>

\* line 1031 on the event loop: the put coroutine runs; the queue is
\* unbounded, so put does not suspend
text_input_queue_put ==
    /\ pending_puts # <<>>
    /\ LET next == NextPut(pending_puts) IN
       /\ text_input_queue' = Append(text_input_queue, next.item)
       /\ pending_puts' = next.rest
    /\ UNCHANGED <<text_pc, text_item, play_pc, bytestream, texts_submitted,
                   drained, client_turns, served_response, written,
                   response_queue_tts, audio_in_queue_player>>
    /\ UNCHANGED <<runner_pc, worker_reading, mic_failed>>
    /\ UNCHANGED <<is_running, cancelled, recv_vars, mux_vars, tts_vars,
                   stop_vars, video_vars>>

\* a variant of Purged that leaves the queue as it is
PurgedNothing(q) == q

\* lines 958-959: a queue after the purge
Purged(q) == <<>>

\* lines 954-960: get() returns an item; None ends the task; for a text the
\* two queues are purged and send_client_content is issued
process_text_input_queue_get ==
    /\ text_pc = "get"
    /\ text_input_queue # <<>>
    /\ text_input_queue' = Tail(text_input_queue)
    /\ IF Head(text_input_queue) = 0
       THEN /\ text_pc' = "done"
            /\ UNCHANGED <<text_item, drained, client_turns,
                           response_queue_tts, audio_in_queue_player>>
       ELSE /\ text_item' = Head(text_input_queue)
            /\ drained' = Len(response_queue_tts) + Len(audio_in_queue_player)
            /\ response_queue_tts' = Purged(response_queue_tts)
            /\ audio_in_queue_player' = Purged(audio_in_queue_player)
            /\ client_turns' = Append(client_turns,
                   [text |-> Head(text_input_queue),
                    tts |-> Len(response_queue_tts'),
                    player |-> Len(audio_in_queue_player')])
            /\ text_pc' = "send"
    /\ UNCHANGED <<play_pc, bytestream, texts_submitted, served_response,
                   written>>
    /\ speech_frame

\* lines 960-961, 953: the send returns, task_done, the loop test; or the
\* send raises and the task ends
process_text_input_queue_sent ==
    /\ text_pc = "send"
    /\ \/ text_pc' = LoopOrDone("get")
       \/ text_pc' = "done"
    /\ text_item' = 0
    /\ UNCHANGED <<play_pc, bytestream, texts_submitted, drained,
                   client_turns, served_response, written, text_input_queue,
                   response_queue_tts, audio_in_queue_player>>
    /\ speech_frame

\* a variant of PlayerGet that takes the newest buffer
PlayerGetNewest(q) == [item |-> q[Len(q)], rest |-> SubSeq(q, 1, Len(q) - 1)]

\* line 1001: the buffer get() returns, and what is left in the queue
PlayerGet(q) == [item |-> Head(q), rest |-> Tail(q)]

\* a variant of ShouldWrite that ignores what the buffer holds
ShouldWriteAny(buffer, running) == running

\* line 1002: if bytestream and self.is_running
ShouldWrite(buffer, running) == buffer.bytes # 0 /\ running

\* lines 1001-1004: get() returns a buffer; a buffer that holds bytes is,
\* while running, written to the output device in a worker thread; any
\* other is skipped: task_done and the loop test of line 1000
play_audio_get ==
    /\ play_pc = "get"
    /\ audio_in_queue_player # <<>>
    /\ LET got == PlayerGet(audio_in_queue_player) IN
       /\ audio_in_queue_player' = got.rest
       /\ IF ShouldWrite(got.item, is_running)
          THEN /\ bytestream' = got.item
               /\ written' = Append(written, got.item)
               /\ play_pc' = "write"
          ELSE /\ play_pc' = LoopOrDone("get")
               /\ UNCHANGED <<bytestream, written>>
    /\ UNCHANGED <<text_pc, text_item, texts_submitted, drained, client_turns,
                   served_response, text_input_queue, response_queue_tts>>
    /\ speech_frame

\* lines 1003-1004, 1000: the write returns, task_done, the loop test
play_audio_written ==
    /\ play_pc = "write"
    /\ play_pc' = LoopOrDone("get")
    /\ bytestream' = NoBuffer
    /\ UNCHANGED <<text_pc, text_item, texts_submitted, drained, client_turns,
                   served_response, written, text_input_queue,
                   response_queue_tts, audio_in_queue_player>>
    /\ speech_frame

\* the remote session: after a user turn was sent it stops streaming the
\* response it was streaming and streams the response to a later turn
session_next_response ==
    /\ served_response < Len(client_turns)
    /\ \E r \in (served_response + 1)..Len(client_turns) :
          served_response' = r
    /\ UNCHANGED <<text_pc, text_item, play_pc, bytestream, texts_submitted,
                   drained, client_turns, written, text_input_queue,
                   response_queue_tts, audio_in_queue_player>>
    /\ speech_frame

-----------------------------------------------------------------------------
(* The speech synthesis bridge: tts and its listen() task (lines 963-996). *)

\* fragments and end sentinels put on response_queue_tts in one run
MaxFragments == 3
MaxSentinels == 2

\* audio buffers the playback queue may hold from the service
MaxSpoken == 1

\* an item of response_queue_tts: a text fragment, named by its ordinal and
\* by the number of user turns sent before it was produced, or the end
\* sentinel None
Fragment(n, turns) == [n |-> n, turns |-> turns]
EndOfText == Fragment(0, 0)

\* the messages tts sends on the connection
Message(kind, chunk) == [kind |-> kind, frag |-> chunk]

\* line 973: the first message on a connection
Priming == Message("priming", EndOfText)

\* a variant of TtsMessage that treats the sentinel as one more fragment
TtsMessageNoFlush(chunk) == Message("synthesis", chunk)

\* lines 983, 988, 990: the message sent for an item taken from the queue
TtsMessage(chunk) ==
    IF chunk = EndOfText THEN Message("flush", EndOfText)
    ELSE Message("synthesis", chunk)

\* the ways an episode ends
EpisodeEnds == {"completed", "stopped", "failed", "cancelled"}

\* a variant of EpisodeEndSignals that a cancelled episode skips
EpisodeEndSignalsIfReturned(how) ==
    IF how = "cancelled" THEN <<>> ELSE <<Emit("speaking_stopped")>>

\* lines 995-996: the finally clause of an episode
EpisodeEndSignals(how) == <<Emit("speaking_stopped")>>

\* the positions of tts between line 970 and the finally clause
EpisodePcs ==
    {"connect", "prime", "send_first", "next", "send", "flush", "await_listen"}

tts_frame ==
    UNCHANGED <<is_running, cancelled, recv_vars, mux_vars, speech_vars,
                stop_vars, video_vars, thread_vars>>

tts_keep_episode ==
    UNCHANGED <<text_chunk, listen_pc, websocket, ws_connects, ws_sent,
                tts_taken, tts_signals, episode_turns, episode_outcome,
                listener_at_close>>

\* lines 972, 993-996: the episode leaves the async with block, which closes
\* the connection if it was opened, and the finally clause runs
tts_episode_ends(how) ==
    /\ websocket' = IF websocket = "open" THEN "closed" ELSE websocket
    /\ listener_at_close' =
           IF websocket = "open" THEN listen_pc ELSE listener_at_close
    /\ tts_signals' = tts_signals \o EpisodeEndSignals(how)
    /\ episode_outcome' = how

\* lines 993-996, 965: an await of the episode raises
tts_episode_fails ==
    /\ tts_episode_ends("failed")
    /\ tts_pc' = LoopOrDone("get")
    /\ UNCHANGED <<text_chunk, listen_pc, ws_connects, ws_sent, tts_taken,
                   episode_turns>>

\* line 965: the loop test when the task first runs
tts_while ==
    /\ tts_pc = "start"
    /\ tts_pc' = LoopOrDone("get")
    /\ tts_keep_episode
    /\ UNCHANGED <<fragments_fed, sentinels_fed, response_queue_tts,
                   audio_in_queue_player>>
    /\ tts_frame

\* lines 966-972: get() returns an item; a sentinel, or any item once the
\* running flag is false, is skipped; a fragment starts an episode:
\* speaking_started, then the connection is requested
tts_get ==
    /\ tts_pc = "get"
    /\ response_queue_tts # <<>>
    /\ response_queue_tts' = Tail(response_queue_tts)
    /\ LET item == Head(response_queue_tts) IN
       IF item = EndOfText \/ ~is_running
       THEN /\ tts_pc' = LoopOrDone("get")
            /\ tts_keep_episode
       ELSE /\ text_chunk' = item
            /\ tts_signals' = Append(tts_signals, Emit("speaking_started"))
            /\ tts_taken' = <<item>>
            /\ ws_connects' = 0
            /\ ws_sent' = <<>>
            /\ websocket' = "none"
            /\ listen_pc' = "none"
            /\ listener_at_close' = "none"
            /\ episode_turns' = Len(client_turns)
            /\ episode_outcome' = "open"
            /\ tts_pc' = "connect"
    /\ UNCHANGED <<fragments_fed, sentinels_fed, audio_in_queue_player>>
    /\ tts_frame

\* lines 972-973: the connection opens and the priming message is sent; or
\* connect raises
tts_connected ==
    /\ tts_pc = "connect"
    /\ \/ /\ websocket' = "open"
          /\ ws_connects' = ws_connects + 1
          /\ ws_sent' = Append(ws_sent, Priming)
          /\ tts_pc' = "prime"
          /\ UNCHANGED <<text_chunk, listen_pc, tts_taken, tts_signals,
                         episode_turns, episode_outcome, listener_at_close>>
       \/ tts_episode_fails
    /\ UNCHANGED <<fragments_fed, sentinels_fed, response_queue_tts,
                   audio_in_queue_player>>
    /\ tts_frame

\* lines 973-983: the priming send returns, the listen() task is created and
\* the first fragment is sent; or the priming send raises
tts_primed ==
    /\ tts_pc = "prime"
    /\ \/ /\ listen_pc' = "start"
          /\ ws_sent' = Append(ws_sent, TtsMessage(text_chunk))
          /\ tts_pc' = "send_first"
          /\ UNCHANGED <<text_chunk, websocket, ws_connects, tts_taken,
                         tts_signals, episode_turns, episode_outcome,
                         listener_at_close>>
       \/ tts_episode_fails
    /\ UNCHANGED <<fragments_fed, sentinels_fed, response_queue_tts,
                   audio_in_queue_player>>
    /\ tts_frame

\* lines 983-986 and 990-991, 985-986: the send of a fragment returns,
\* task_done, the loop test; or the send raises
tts_fragment_sent ==
    /\ tts_pc \in {"send_first", "send"}
    /\ \/ /\ tts_pc' = IF is_running THEN "next" ELSE "await_listen"
          /\ tts_keep_episode
       \/ tts_episode_fails
    /\ UNCHANGED <<fragments_fed, sentinels_fed, response_queue_tts,
                   audio_in_queue_player>>
    /\ tts_frame

\* lines 986-990: get() returns the next item of the episode; for the
\* sentinel the flush message is sent, for a fragment its synthesis message
tts_next ==
    /\ tts_pc = "next"
    /\ response_queue_tts # <<>>
    /\ response_queue_tts' = Tail(response_queue_tts)
    /\ LET item == Head(response_queue_tts) IN
       /\ text_chunk' = item
       /\ tts_taken' = Append(tts_taken, item)
       /\ ws_sent' = Append(ws_sent, TtsMessage(item))
       /\ tts_pc' = IF item = EndOfText THEN "flush" ELSE "send"
    /\ UNCHANGED <<listen_pc, websocket, ws_connects, tts_signals,
                   episode_turns, episode_outcome, listener_at_close,
                   fragments_fed, sentinels_fed, audio_in_queue_player>>
    /\ tts_frame

\* lines 988-989, 992: the flush send returns, task_done, break; or it raises
tts_flushed ==
    /\ tts_pc = "flush"
    /\ \/ /\ tts_pc' = "await_listen"
          /\ tts_keep_episode
       \/ tts_episode_fails
    /\ UNCHANGED <<fragments_fed, sentinels_fed, response_queue_tts,
                   audio_in_queue_player>>
    /\ tts_frame

\* lines 992-996, 965: listen() has finished; its exception, if any, is
\* raised here; the connection is closed and the finally clause runs
tts_listen_awaited ==
    /\ tts_pc = "await_listen"
    /\ listen_pc \in {"done", "failed"}
    /\ tts_episode_ends(IF listen_pc = "failed" THEN "failed"
                        ELSE IF text_chunk = EndOfText THEN "completed"
                        ELSE "stopped")
    /\ tts_pc' = LoopOrDone("get")
    /\ UNCHANGED <<text_chunk, listen_pc, ws_connects, ws_sent, tts_taken,
                   episode_turns, fragments_fed, sentinels_fed,
                   response_queue_tts, audio_in_queue_player>>
    /\ tts_frame

\* what the service sends on the connection: an audio message, the final
\* flag, a close, or a message json.loads rejects
ServerMessages == {"audio", "isFinal", "closed", "malformed"}

\* line 975: the loop test when listen() first runs
listen_while ==
    /\ listen_pc = "start"
    /\ listen_pc' = LoopOrDone("recv")
    /\ UNCHANGED <<tts_pc, text_chunk, websocket, ws_connects, ws_sent,
                   tts_taken, tts_signals, episode_turns, episode_outcome,
                   listener_at_close, fragments_fed, sentinels_fed,
                   response_queue_tts, audio_in_queue_player>>
    /\ tts_frame

\* lines 975-981: recv() returns a message or raises.  A listen() task left
\* behind by an episode that failed ends here with ConnectionClosed.
listen_recv ==
    /\ listen_pc = "recv"
    /\ IF websocket # "open"
       THEN /\ listen_pc' = "done"
            /\ UNCHANGED audio_in_queue_player
       ELSE \E message \in ServerMessages :
            CASE message = "audio" ->
                     /\ Len(audio_in_queue_player) < MaxSpoken
                     /\ audio_in_queue_player' =
                            Append(audio_in_queue_player,
                                   Buffer(0, Len(client_turns)))
                     /\ listen_pc' = LoopOrDone("recv")
              [] message \in {"isFinal", "closed"} ->
                     /\ listen_pc' = "done"
                     /\ UNCHANGED audio_in_queue_player
              [] message = "malformed" ->
                     /\ listen_pc' = "failed"
                     /\ UNCHANGED audio_in_queue_player
    /\ UNCHANGED <<tts_pc, text_chunk, websocket, ws_connects, ws_sent,
                   tts_taken, tts_signals, episode_turns, episode_outcome,
                   listener_at_close, fragments_fed, sentinels_fed,
                   response_queue_tts>>
    /\ tts_frame

\* the input of tts: a text fragment is put on response_queue_tts
response_queue_tts_put_text ==
    /\ ~cancelled
    /\ fragments_fed < MaxFragments
    /\ fragments_fed' = fragments_fed + 1
    /\ response_queue_tts' =
           Append(response_queue_tts,
                  Fragment(fragments_fed + 1, Len(client_turns)))
    /\ UNCHANGED <<tts_pc, sentinels_fed, audio_in_queue_player>>
    /\ tts_keep_episode
    /\ tts_frame

\* the input of tts: the end sentinel is put on response_queue_tts
response_queue_tts_put_end ==
    /\ ~cancelled
    /\ sentinels_fed < MaxSentinels
    /\ sentinels_fed' = sentinels_fed + 1
    /\ response_queue_tts' = Append(response_queue_tts, EndOfText)
    /\ UNCHANGED <<tts_pc, fragments_fed, audio_in_queue_player>>
    /\ tts_keep_episode
    /\ tts_frame

\* a task.cancel() reaches tts: CancelledError is raised at the await the
\* task is suspended in; except Exception does not catch it; inside an
\* episode the async with block closes the connection and the finally clause
\* runs.  Cancelling tts in await listen_task cancels listen() too.
tts_cancelled ==
    /\ tts_pc' = "done"
    /\ IF tts_pc \in EpisodePcs
       THEN /\ tts_episode_ends("cancelled")
            /\ listen_pc' = IF tts_pc = "await_listen" /\ listen_pc # "failed"
                            THEN "done" ELSE listen_pc
       ELSE UNCHANGED <<websocket, listener_at_close, tts_signals,
                        episode_outcome, listen_pc>>
    /\ UNCHANGED <<text_chunk, ws_connects, ws_sent, tts_taken, episode_turns,
                   fragments_fed, sentinels_fed>>

-----------------------------------------------------------------------------
(* The capture loop and the mode switch: stream_video_to_gui (lines 685-723) *)
(* and set_video_mode (lines 675-683).                                      *)

\* calls of set_video_mode, and of cv2.VideoCapture(0), in one run
MaxSwitches == 2
MaxOpens == 2

\* line 678: the modes set_video_mode accepts
VideoModes == {"camera", "screen", "none"}

video_frame ==
    UNCHANGED <<is_running, cancelled, recv_vars, speech_vars, tts_vars,
                stop_vars, thread_vars, response_queue_tts,
                audio_in_queue_player>>

video_keep_mux ==
    UNCHANGED <<mic_pc, mic_data, frames_pc, frames_data, send_pc, send_msg,
                mic_reads, images_made, enqueued, forwarded, dropped,
                out_queue_gemini>>

\* a variant of LatestFrameAfter that keeps the frame
LatestFrameKept(mode, frame) == frame

\* lines 681-682: latest_frame after a switch to mode
LatestFrameAfter(mode, frame) == IF mode = "none" THEN 0 ELSE frame

\* lines 676-683: the UI thread records the mode, clears latest_frame for
\* "none" and emits video_mode_changed; any other argument is ignored
set_video_mode ==
    /\ mode_switches < MaxSwitches
    /\ mode_switches' = mode_switches + 1
    /\ \E mode \in VideoModes \cup {"other"} :
          /\ mode_arg' = mode
          /\ IF mode \in VideoModes
             THEN /\ video_mode' = mode
                  /\ latest_frame' = LatestFrameAfter(mode, latest_frame)
             ELSE UNCHANGED <<video_mode, latest_frame>>
    /\ UNCHANGED <<video_pc, video_capture, iteration_mode, cameras_held,
                   captures_opened, iteration_end>>
    /\ video_keep_mux
    /\ video_frame

\* a variant of NeedsRelease that never releases
NeedsReleaseNever(capture) == FALSE

\* lines 698, 704, 719, 723: video_capture is not None
NeedsRelease(capture) == capture # "none"

\* lines 692-716 after the capture object exists: with an opened capture the
\* read is requested; with one that failed to open an empty image is emitted
\* and the loop sleeps
AfterCapture(capture) == IF capture = "opened" THEN "read" ELSE "sleep"

\* how an iteration ends, and what it has published by then:
\*   "image"    lines 709-716  frame_received with the frame, sleep(0.033)
\*   "null"     lines 715-716  frame_received with an empty image, sleep(0.033)
\*   "no_frame" lines 694-696  nothing emitted, sleep(0.01), continue
\*   "idle"     lines 703-708  nothing emitted, sleep(0.1), continue
\*   "error"    lines 717-722  nothing emitted, release, sleep(1)
\* "pending" stands for an iteration that has not got there yet
IterationEnds == {"image", "null", "no_frame", "idle", "error"}

\* a variant of EndAfterCapture that emits nothing for an unopened capture
EndAfterCaptureSilent(capture) ==
    IF capture = "opened" THEN "pending" ELSE "no_frame"

\* lines 692, 715: the end of an iteration once the capture object exists
EndAfterCapture(capture) == IF capture = "opened" THEN "pending" ELSE "null"

\* a variant of AfterError that goes to the back-off without a release
AfterErrorNoRelease(capture) == "sleep"

\* lines 717-722: the handler releases a capture it holds, then backs off
AfterError(capture) ==
    IF NeedsRelease(capture) THEN "release_error" ELSE "sleep"

\* lines 687-708, 723: a sleep ends (or the task first runs); the loop test;
\* the mode is read and the branch runs up to its first await
stream_video_to_gui_iterate ==
    /\ video_pc \in {"start", "sleep"}
    /\ IF ~is_running
       THEN /\ video_pc' = IF NeedsRelease(video_capture)
                           THEN "release_final" ELSE "done"
            /\ UNCHANGED <<iteration_mode, captures_opened, iteration_end>>
       ELSE /\ iteration_mode' = video_mode
            /\ CASE video_mode = "camera" ->
                       IF video_capture = "none"
                       THEN /\ captures_opened < MaxOpens
                            /\ captures_opened' = captures_opened + 1
                            /\ video_pc' = "open"
                            /\ iteration_end' = "pending"
                       ELSE /\ video_pc' = AfterCapture(video_capture)
                            /\ iteration_end' =
                                   EndAfterCapture(video_capture)
                            /\ UNCHANGED captures_opened
                 [] video_mode = "screen" ->
                       /\ video_pc' = IF NeedsRelease(video_capture)
                                      THEN "release_screen" ELSE "grab"
                       /\ iteration_end' = "pending"
                       /\ UNCHANGED captures_opened
                 [] OTHER ->
                       /\ video_pc' = IF NeedsRelease(video_capture)
                                      THEN "release_none" ELSE "sleep"
                       /\ iteration_end' = "idle"
                       /\ UNCHANGED captures_opened
    /\ UNCHANGED <<video_mode, latest_frame, video_capture, cameras_held,
                   mode_switches, mode_arg>>
    /\ video_keep_mux
    /\ video_frame

\* lines 691-692, 717-722: cv2.VideoCapture(0) returns a capture that is
\* opened or not; or it raises, and the handler sleeps
stream_video_to_gui_opened ==
    /\ video_pc = "open"
    /\ \/ /\ video_capture' = "opened"
          /\ cameras_held' = cameras_held + 1
          /\ video_pc' = AfterCapture("opened")
          /\ iteration_end' = EndAfterCapture("opened")
       \/ /\ video_capture' = "unopened"
          /\ UNCHANGED cameras_held
          /\ video_pc' = AfterCapture("unopened")
          /\ iteration_end' = EndAfterCapture("unopened")
       \/ /\ UNCHANGED <<video_capture, cameras_held>>
          /\ video_pc' = AfterError(video_capture)
          /\ iteration_end' = "error"
    /\ UNCHANGED <<video_mode, latest_frame, iteration_mode, captures_opened,
                   mode_switches, mode_arg>>
    /\ video_keep_mux
    /\ video_frame

\* lines 693-696, 709-722: read returns a frame, which becomes the latest
\* frame, or no frame; or it raises, and the handler releases the capture
stream_video_to_gui_read ==
    /\ video_pc = "read"
    /\ \/ /\ latest_frame' = 1
          /\ video_pc' = "sleep"
          /\ iteration_end' = "image"
       \/ /\ UNCHANGED latest_frame
          /\ video_pc' = "sleep"
          /\ iteration_end' = "no_frame"
       \/ /\ UNCHANGED latest_frame
          /\ video_pc' = AfterError(video_capture)
          /\ iteration_end' = "error"
    /\ UNCHANGED <<video_mode, video_capture, iteration_mode, cameras_held,
                   captures_opened, mode_switches, mode_arg>>
    /\ video_keep_mux
    /\ video_frame

\* where the loop goes on once a release has returned
AfterRelease(pc) ==
    CASE pc = "release_screen" -> "grab"
      [] pc = "release_none" -> "sleep"
      [] pc = "release_error" -> "sleep"
      [] pc = "release_final" -> "done"

ReleasePcs ==
    {"release_screen", "release_none", "release_error", "release_final"}

\* the devices held once a capture has been released
HeldAfterRelease(capture, held) ==
    IF capture = "opened" THEN held - 1 ELSE held

\* lines 699-701, 705-707, 720-722, 723: release returns and the local is
\* reset
stream_video_to_gui_released ==
    /\ video_pc \in ReleasePcs
    /\ cameras_held' = HeldAfterRelease(video_capture, cameras_held)
    /\ video_capture' = "none"
    /\ video_pc' = AfterRelease(video_pc)
    /\ UNCHANGED <<video_mode, latest_frame, iteration_mode, captures_opened,
                   mode_switches, mode_arg, iteration_end>>
    /\ video_keep_mux
    /\ video_frame

\* lines 701-702, 709-722: the screen grab returns and becomes the latest
\* frame; or it raises, and the handler sleeps
stream_video_to_gui_grabbed ==
    /\ video_pc = "grab"
    /\ \/ /\ latest_frame' = 1
          /\ video_pc' = "sleep"
          /\ iteration_end' = "image"
       \/ /\ UNCHANGED latest_frame
          /\ video_pc' = AfterError(video_capture)
          /\ iteration_end' = "error"
    /\ UNCHANGED <<video_mode, video_capture, iteration_mode, cameras_held,
                   captures_opened, mode_switches, mode_arg>>
    /\ video_keep_mux
    /\ video_frame

\* a task.cancel() reaches stream_video_to_gui: CancelledError is raised at
\* the await the task is suspended in; except Exception does not catch it
\* and line 723 is not reached.  A release already handed to a worker thread
\* is carried out or not.
stream_video_to_gui_cancelled ==
    /\ video_pc' = "done"
    /\ IF video_pc \in ReleasePcs
       THEN cameras_held' \in
                {cameras_held, HeldAfterRelease(video_capture, cameras_held)}
       ELSE UNCHANGED cameras_held
    /\ UNCHANGED <<video_capture, iteration_mode, captures_opened,
                   mode_switches, mode_arg, iteration_end>>

-----------------------------------------------------------------------------
(* stop() and the shutdown coroutine. *)

\* calls of stop() in one run
MaxStopCalls == 2

\* a variant of ShutdownNeeded that holds on every call
ShutdownNeededAlways == TRUE

\* loop.is_running(): run_until_complete has begun and has not returned
LoopIsRunning == runner_pc \notin {"not_started", "returned"}

\* the loop's thread runs the loop: it is neither in the exception handler
\* of run() nor held inside the stop() that the finally clause calls
LoopFree == runner_pc \in {"connect", "gather", "closing"}

\* line 1039: the test of stop()
ShutdownNeeded == is_running /\ LoopIsRunning

\* lines 1039-1042: a call of stop() whose test passes: the UI thread clears
\* the running flag, schedules the shutdown coroutine on the event loop and
\* waits for its result
stop ==
    /\ stop_pc = "idle"
    /\ stop_calls < MaxStopCalls
    /\ ShutdownNeeded
    /\ is_running' = FALSE
    /\ shutdown_pc' = "scheduled"
    /\ stop_pc' = "wait"
    /\ stop_calls' = stop_calls + 1
    /\ stop_log' = stop_log \o <<"flag", "scheduled">>
    /\ UNCHANGED <<cancelled, recv_vars, mux_vars, speech_vars, tts_vars,
                   video_vars, thread_vars, audio_stream, response_queue_tts,
                   audio_in_queue_player>>

\* line 1039: a call of stop() whose test fails goes on to line 1044
stop_again ==
    /\ stop_pc = "idle"
    /\ stop_calls < MaxStopCalls
    /\ ~ShutdownNeeded
    /\ stop_pc' = "release"
    /\ stop_calls' = stop_calls + 1
    /\ UNCHANGED <<is_running, cancelled, recv_vars, mux_vars, speech_vars,
                   tts_vars, video_vars, thread_vars, shutdown_pc, audio_stream, stop_log,
                   response_queue_tts, audio_in_queue_player>>

\* a variant of ShutdownCompleted that does not wait for the coroutine's end
ShutdownCompletedEarly == shutdown_pc # "none"

\* line 1042: future.result returns once the shutdown coroutine has ended
ShutdownCompleted == shutdown_pc = "done"

\* a variant of AfterWait that lets the failure of the wait leave stop()
AfterWaitRaising(outcome) ==
    IF outcome = "timeout" THEN "raised" ELSE "release"

\* lines 1042-1043: where stop() goes on after the wait: its failure is
\* caught and printed
AfterWait(outcome) == "release"

\* lines 1042-1043: the wait ends: the coroutine has ended, or the timeout
\* passes before it has (the event loop did not run it to its end in time)
stop_wait_over ==
    /\ stop_pc = "wait"
    /\ \E outcome \in {"wait_done", "timeout"} :
          /\ outcome = "wait_done" => ShutdownCompleted
          /\ outcome = "timeout" => shutdown_pc # "done"
          /\ stop_pc' = AfterWait(outcome)
          /\ stop_log' = Append(stop_log, outcome)
    /\ UNCHANGED <<is_running, cancelled, recv_vars, mux_vars, speech_vars,
                   tts_vars, video_vars, thread_vars, shutdown_pc, audio_stream, stop_calls,
                   response_queue_tts, audio_in_queue_player>>

\* lines 1044-1045: an active stream is stopped and closed.  No stream was
\* opened: nothing to do.  On a closed stream is_active() is called all the
\* same; it answers False or raises, and stop_stream and close are not
\* reached.
stop_release ==
    /\ stop_pc = "release"
    /\ stop_pc' = "idle"
    /\ CASE audio_stream = "active" ->
                /\ audio_stream' = "closed"
                /\ stop_log' = stop_log \o <<"release", "return">>
         [] audio_stream = "none" ->
                /\ UNCHANGED audio_stream
                /\ stop_log' = stop_log \o <<"no_stream", "return">>
         [] audio_stream = "closed" ->
                /\ UNCHANGED audio_stream
                /\ \/ stop_log' = stop_log \o <<"inactive", "return">>
                   \/ stop_log' = stop_log \o <<"is_active_raised">>
    /\ UNCHANGED <<is_running, cancelled, recv_vars, mux_vars, speech_vars,
                   tts_vars, video_vars, thread_vars, shutdown_pc, stop_calls,
                   response_queue_tts, audio_in_queue_player>>

\* the positions at which a coroutine is suspended (or has ended): only then
\* can another coroutine of the loop run
Suspended ==
    /\ recv_pc \in {"start", "next_chunk", "search", "send_tool_response",
                   "done"}
    /\ mic_pc \in {"start", "read", "reading", "put", "done"}
    /\ frames_pc \in {"sleep", "put", "done"}    \* not "encode"
    /\ send_pc \in {"get", "send", "done"}
    /\ text_pc \in {"get", "send", "done"}
    /\ play_pc \in {"get", "write", "done"}

\* what a cancelled task held in a suspended put
HeldItems == {d \in {mic_data, frames_data} : d # NoItem}

\* a variant of AfterCancel for a task that takes no notice of cancel()
AfterCancelIgnored(pc) == pc

\* line 1035: task.cancel() raises CancelledError at the await the task is
\* suspended in; no handler of the tasks catches it, so the task ends
AfterCancel(pc) == "done"

\* lines 1034-1035: the steps of the shutdown coroutine before its sleep
ShutdownSteps == <<"sentinel", "cancel">>

\* lines 1033-1036: the sentinel is put on text_input_queue and every task is
\* cancelled; a cancelled task ends at the await it is suspended in; the
\* coroutine sleeps
shutdown_async_tasks ==
    /\ shutdown_pc = "scheduled"
    /\ runner_pc \in {"gather", "closing"}
    /\ Suspended
    /\ pending_puts = <<>>
    /\ shutdown_pc' = "sleep"
    /\ stop_log' = stop_log \o ShutdownSteps
    /\ UNCHANGED <<stop_pc, audio_stream, stop_calls>>
    /\ cancelled' = TRUE
    /\ text_input_queue' = Append(text_input_queue, 0)
    /\ recv_pc' = AfterCancel(recv_pc)
    /\ mic_pc' = AfterCancel(mic_pc)
    /\ frames_pc' = AfterCancel(frames_pc)
    /\ send_pc' = AfterCancel(send_pc)
    /\ text_pc' = AfterCancel(text_pc)
    /\ play_pc' = AfterCancel(play_pc)
    /\ dropped' = dropped \cup HeldItems
    /\ UNCHANGED <<is_running, chunk_calls, fc_index, function_responses,
                   turn_urls, turn_code_content, turn_code_result,
                   file_list_data, chunks_read, turn_outcome, tool_requests,
                   tool_batches, dispatched, received, signals,
                   video_mode, latest_frame, mic_data, frames_data, send_msg,
                   mic_reads, images_made, enqueued, forwarded,
                   out_queue_gemini, text_item, bytestream, texts_submitted,
                   drained, client_turns, served_response, written,
                   response_queue_tts, audio_in_queue_player>>
    /\ tts_cancelled
    /\ stream_video_to_gui_cancelled
    /\ UNCHANGED thread_vars

\* line 1036: the sleep of the shutdown coroutine ends and it returns
shutdown_async_tasks_done ==
    /\ shutdown_pc = "sleep"
    /\ LoopFree
    /\ shutdown_pc' = "done"
    /\ UNCHANGED <<is_running, cancelled, recv_vars, mux_vars, speech_vars,
                   tts_vars, video_vars, thread_vars, stop_pc, audio_stream, stop_calls,
                   stop_log, response_queue_tts, audio_in_queue_player>>

\* line 1014: gather(*self.tasks, return_exceptions=True) returns when
\* every task has ended; the exception of a task that failed is kept as
\* that task's result and the wait for the others goes on
GatherReturns ==
    /\ recv_pc = "done" /\ mic_pc = "done" /\ frames_pc = "done"
    /\ send_pc = "done" /\ text_pc = "done" /\ play_pc = "done"
    /\ tts_pc = "done" /\ video_pc = "done"

\* lines 1014, 1018: gather returns, main_task_runner returns and the
\* async with of run() closes the session
main_task_runner_gathered ==
    /\ runner_pc = "gather"
    /\ GatherReturns
    /\ runner_pc' = "closing"
    /\ UNCHANGED <<is_running, cancelled, recv_vars, mux_vars, speech_vars,
                   tts_vars, stop_vars, video_vars, worker_reading,
                   mic_failed, pending_puts, response_queue_tts,
                   audio_in_queue_player>>

\* lines 1022-1023, 1039-1041: the finally clause of run().  With the flag
\* cleared run() returns and run_until_complete stops the loop.  With the
\* flag still set stop() is called on the loop's own thread: it clears the
\* flag, schedules the shutdown coroutine on the loop and waits for it.
run_finally ==
    /\ runner_pc \in {"closing", "failed"}
    /\ IF is_running
       THEN /\ is_running' = FALSE
            /\ shutdown_pc' = "scheduled"
            /\ stop_log' = stop_log \o <<"flag", "scheduled">>
            /\ runner_pc' = "in_stop"
       ELSE /\ runner_pc' = "returned"
            /\ UNCHANGED <<is_running, shutdown_pc, stop_log>>
    /\ UNCHANGED <<cancelled, recv_vars, mux_vars, speech_vars, tts_vars,
                   video_vars, worker_reading, mic_failed, pending_puts,
                   stop_pc, audio_stream, stop_calls, response_queue_tts,
                   audio_in_queue_player>>

\* lines 1042-1045, 1027: the wait of the stop() called by run() ends, an
\* active stream is closed, run() returns and the loop stops
run_finally_stop_returns ==
    /\ runner_pc = "in_stop"
    /\ \E outcome \in {"wait_done", "timeout"} :
          /\ outcome = "wait_done" => ShutdownCompleted
          /\ outcome = "timeout" => shutdown_pc # "done"
          /\ stop_log' = Append(stop_log, outcome)
    /\ audio_stream' = IF audio_stream = "active" THEN "closed"
                       ELSE audio_stream
    /\ runner_pc' = "returned"
    /\ UNCHANGED <<is_running, cancelled, recv_vars, mux_vars, speech_vars,
                   tts_vars, video_vars, worker_reading, mic_failed,
                   pending_puts, stop_pc, shutdown_pc, stop_calls,
                   response_queue_tts, audio_in_queue_player>>

\* lines 1025-1027: the backend thread runs start_event_loop; the loop
\* starts and run() waits for the connection to the remote session
start_event_loop ==
    /\ runner_pc = "not_started"
    /\ runner_pc' = "connect"
    /\ UNCHANGED <<is_running, cancelled, recv_vars, mux_vars, speech_vars,
                   tts_vars, stop_vars, video_vars, worker_reading,
                   mic_failed, pending_puts, response_queue_tts,
                   audio_in_queue_player>>

\* lines 1018-1019, 1006-1014: the session is connected and main_task_runner
\* creates the eight tasks.  After a stop() that came during the connection
\* every task ends at its first loop test, listen_audio after it has opened
\* the input stream (lines 931-933).  The loop, idle while it waits for the
\* connection, has run a shutdown coroutine scheduled by then.
run_connected ==
    /\ runner_pc = "connect"
    /\ shutdown_pc \notin {"scheduled"}
    /\ runner_pc' = "gather"
    /\ IF is_running
       THEN UNCHANGED <<recv_pc, mic_pc, frames_pc, send_pc, text_pc, play_pc,
                        tts_pc, video_pc, audio_stream>>
       ELSE /\ recv_pc' = "done" /\ mic_pc' = "done" /\ frames_pc' = "done"
            /\ send_pc' = "done" /\ text_pc' = "done" /\ play_pc' = "done"
            /\ tts_pc' = "done" /\ video_pc' = "done"
            /\ audio_stream' = "active"
    /\ UNCHANGED <<is_running, cancelled, chunk_calls, fc_index,
                   function_responses, turn_urls, turn_code_content,
                   turn_code_result, file_list_data, chunks_read,
                   turn_outcome, tool_requests, tool_batches, dispatched,
                   received, signals, video_mode, latest_frame, mic_data,
                   frames_data, send_msg, mic_reads, images_made, enqueued,
                   forwarded, dropped, text_item, bytestream, texts_submitted,
                   drained, client_turns, served_response, written,
                   text_chunk, listen_pc, websocket, ws_connects, ws_sent,
                   tts_taken, tts_signals, episode_turns, episode_outcome,
                   listener_at_close, fragments_fed, sentinels_fed,
                   stop_pc, shutdown_pc, stop_calls, stop_log,
                   video_capture, iteration_mode, cameras_held,
                   captures_opened, mode_switches, mode_arg, iteration_end,
                   worker_reading, mic_failed, pending_puts,
                   out_queue_gemini, response_queue_tts,
                   audio_in_queue_player, text_input_queue>>

\* lines 1018, 1021: the connection fails; the exception is printed and the
\* finally clause is next, with no await on the way
run_connect_failed ==
    /\ runner_pc = "connect"
    /\ shutdown_pc \notin {"scheduled"}
    /\ runner_pc' = "failed"
    /\ UNCHANGED <<is_running, cancelled, recv_vars, mux_vars, speech_vars,
                   tts_vars, stop_vars, video_vars, worker_reading,
                   mic_failed, pending_puts, response_queue_tts,
                   audio_in_queue_player>>

\* lines 1033-1036 while run() waits for the connection: self.tasks is
\* empty, the sentinel is put and nothing is cancelled; the coroutine sleeps
shutdown_async_tasks_no_tasks ==
    /\ shutdown_pc = "scheduled"
    /\ runner_pc = "connect"
    /\ shutdown_pc' = "sleep"
    /\ stop_log' = stop_log \o ShutdownSteps
    /\ text_input_queue' = Append(text_input_queue, 0)
    /\ UNCHANGED <<is_running, cancelled, recv_vars, mux_vars, tts_vars,
                   video_vars, thread_vars, stop_pc, audio_stream, stop_calls,
                   text_pc, text_item, play_pc, bytestream, texts_submitted,
                   drained, client_turns, served_response, written,
                   response_queue_tts, audio_in_queue_player>>

-----------------------------------------------------------------------------
(* The state after AI_Core.__init__ and main_task_runner's create_task calls. *)

InitTasks ==
    /\ is_running = TRUE
    /\ cancelled = FALSE
    /\ recv_pc = "start"
    /\ chunk_calls = <<>>
    /\ fc_index = 1
    /\ function_responses = <<>>
    /\ turn_urls = {}
    /\ turn_code_content = 0
    /\ turn_code_result = 0
    /\ file_list_data = 0
    /\ chunks_read = 0
    /\ turn_outcome = "none"
    /\ tool_requests = <<>>
    /\ tool_batches = <<>>
    /\ dispatched = <<>>
    /\ received = NoParts
    /\ signals = <<>>
    /\ out_queue_gemini = <<>>
    /\ response_queue_tts = <<>>
    /\ audio_in_queue_player = <<>>
    /\ text_input_queue = <<>>
    /\ video_mode = "camera"
    /\ latest_frame = 0
    /\ mic_pc = "start"
    /\ mic_data = NoItem
    /\ frames_pc = "sleep"
    /\ frames_data = NoItem
    /\ send_pc = "get"
    /\ send_msg = NoItem
    /\ mic_reads = 0
    /\ images_made = 0
    /\ enqueued = <<>>
    /\ forwarded = <<>>
    /\ dropped = {}
    /\ text_pc = "get"
    /\ text_item = 0
    /\ play_pc = "get"
    /\ bytestream = NoBuffer
    /\ texts_submitted = 0
    /\ drained = 0
    /\ client_turns = <<>>
    /\ served_response = 0
    /\ written = <<>>
    /\ tts_pc = "start"
    /\ text_chunk = EndOfText
    /\ listen_pc = "none"
    /\ websocket = "none"
    /\ ws_connects = 0
    /\ ws_sent = <<>>
    /\ tts_taken = <<>>
    /\ tts_signals = <<>>
    /\ episode_turns = 0
    /\ episode_outcome = "none"
    /\ listener_at_close = "none"
    /\ fragments_fed = 0
    /\ sentinels_fed = 0
    /\ stop_pc = "idle"
    /\ shutdown_pc = "none"
    /\ audio_stream = "none"
    /\ stop_calls = 0
    /\ stop_log = <<>>
    /\ video_pc = "start"
    /\ video_capture = "none"
    /\ iteration_mode = "camera"
    /\ cameras_held = 0
    /\ captures_opened = 0
    /\ mode_switches = 0
    /\ mode_arg = "camera"
    /\ iteration_end = "pending"
    /\ worker_reading = FALSE
    /\ mic_failed = FALSE
    /\ pending_puts = <<>>

\* the state once main_task_runner has created the tasks
Init == InitTasks /\ runner_pc = "gather"

\* the state after setup_backend_thread has started the backend thread
\* (line 1234), before the thread runs
InitRun == InitTasks /\ runner_pc = "not_started"

\* the response demultiplexer: receive_text with stop()
NextReceive ==
    \/ receive_text_while
    \/ receive_text_tool_chunk
    \/ receive_text_dispatch
    \/ receive_text_searched
    \/ receive_text_send_tool_response
    \/ receive_text_tool_response_sent
    \/ receive_text_content(ContentChunks)
    \/ receive_text_turn_end
    \/ receive_text_stream_error
    \/ stop
    \/ shutdown_async_tasks

Spec == Init /\ [][NextReceive]_vars

\* what makes receive_text advance: the loop runs every step of the
\* coroutine that waits for nothing but a worker thread or the acknowledged
\* send of line 904, and the remote session ends every turn of which it has
\* sent a chunk.  Nothing makes the session start a turn (that takes the
\* user's input), raise, or the user call stop().
ReceiveFairness ==
    /\ WF_vars(receive_text_while)
    /\ WF_vars(receive_text_dispatch)
    /\ WF_vars(receive_text_searched)
    /\ WF_vars(receive_text_send_tool_response)
    /\ WF_vars(receive_text_tool_response_sent)
    /\ WF_vars(chunks_read > 0 /\ receive_text_turn_end)
    /\ WF_vars(shutdown_async_tasks)

SpecReceiveFair == Spec /\ ReceiveFairness

\* the outbound multiplexer: the two producers, the sender and stop()
NextMux ==
    \/ listen_audio_open
    \/ listen_audio_read
    \/ listen_audio_check
    \/ listen_audio_put
    \/ stream_video_to_gui_frame
    \/ send_frames_to_gemini_tick
    \/ send_frames_to_gemini_put
    \/ send_realtime_get
    \/ send_realtime_sent
    \/ stop
    \/ shutdown_async_tasks

SpecMux == Init /\ [][NextMux]_vars

\* the speech path: audio responses, user texts, playback and stop()
NextSpeech ==
    \/ receive_text_while
    \/ receive_text_content(AudioChunks)
    \/ receive_text_turn_end
    \/ receive_text_stream_error
    \/ handle_user_text
    \/ process_text_input_queue_get
    \/ process_text_input_queue_sent
    \/ play_audio_get
    \/ play_audio_written
    \/ session_next_response
    \/ stop
    \/ shutdown_async_tasks

SpecSpeech == Init /\ [][NextSpeech]_vars

\* playback fed with buffers of which some hold no bytes
NextPlayer ==
    \/ receive_text_while
    \/ receive_text_content(PlayerChunks)
    \/ receive_text_turn_end
    \/ handle_user_text
    \/ process_text_input_queue_get
    \/ process_text_input_queue_sent
    \/ play_audio_get
    \/ play_audio_written
    \/ session_next_response
    \/ stop
    \/ shutdown_async_tasks

SpecPlayer == Init /\ [][NextPlayer]_vars

\* the speech synthesis bridge: tts fed with fragments and sentinels, its
\* listen() task and stop()
NextTts ==
    \/ tts_while
    \/ tts_get
    \/ tts_connected
    \/ tts_primed
    \/ tts_fragment_sent
    \/ tts_next
    \/ tts_flushed
    \/ tts_listen_awaited
    \/ listen_while
    \/ listen_recv
    \/ response_queue_tts_put_text
    \/ response_queue_tts_put_end
    \/ stop
    \/ shutdown_async_tasks

SpecTts == Init /\ [][NextTts]_vars

\* the speech synthesis bridge with user texts, whose purge empties its queue
NextSupersede ==
    \/ NextTts
    \/ handle_user_text
    \/ process_text_input_queue_get
    \/ process_text_input_queue_sent

SpecSupersede == Init /\ [][NextSupersede]_vars

\* the shutdown: stop() called from the UI thread, the shutdown coroutine,
\* and the task that owns the input stream with the consumer of its queue
NextStop ==
    \/ listen_audio_open
    \/ listen_audio_read
    \/ listen_audio_check
    \/ listen_audio_put
    \/ send_realtime_get
    \/ send_realtime_sent
    \/ stop
    \/ stop_again
    \/ stop_wait_over
    \/ stop_release
    \/ shutdown_async_tasks
    \/ shutdown_async_tasks_done

SpecStop == Init /\ [][NextStop]_vars

\* set_video_mode on the UI thread against the coroutines that read the
\* mode and the latest frame: a coroutine runs only when no other is inside
\* a step, the UI thread runs at any time
NextModeRace ==
    \/ set_video_mode
    \/ stop
    \/ send_frames_to_gemini_test /\ Suspended
    \/ send_frames_to_gemini_encode
    \/ stream_video_to_gui_iterate /\ Suspended
    \/ stream_video_to_gui_opened /\ Suspended
    \/ stream_video_to_gui_read /\ Suspended
    \/ stream_video_to_gui_released /\ Suspended
    \/ stream_video_to_gui_grabbed /\ Suspended
    \/ send_realtime_get /\ Suspended
    \/ send_realtime_sent /\ Suspended
    \/ shutdown_async_tasks

SpecModeRace == Init /\ [][NextModeRace]_vars

\* the hand-off of user texts from the UI thread and their consumer
NextTexts ==
    \/ handle_user_text_threadsafe
    \/ text_input_queue_put
    \/ process_text_input_queue_get
    \/ process_text_input_queue_sent
    \/ receive_text_while
    \/ receive_text_content(AudioChunks)
    \/ receive_text_turn_end
    \/ stop
    \/ shutdown_async_tasks

SpecTexts == Init /\ [][NextTexts]_vars

\* the microphone task with its worker thread, its consumer, stop() and
\* main_task_runner
NextMic ==
    \/ listen_audio_open
    \/ listen_audio_read_start
    \/ listen_audio_read_return
    \/ listen_audio_check
    \/ listen_audio_put
    \/ worker_read_ends
    \/ send_realtime_get
    \/ send_realtime_sent
    \/ stop
    \/ stop_wait_over
    \/ stop_release
    \/ shutdown_async_tasks
    \/ shutdown_async_tasks_done
    \/ main_task_runner_gathered
    \/ run_finally

SpecMic == Init /\ [][NextMic]_vars

\* the event loop runs every coroutine that can go on, and a read handed to
\* a worker thread returns; the UI thread calls stop() or not
MicFairness ==
    /\ WF_vars(listen_audio_open)
    /\ WF_vars(listen_audio_read_start)
    /\ WF_vars(listen_audio_read_return)
    /\ WF_vars(listen_audio_check)
    /\ WF_vars(listen_audio_put)
    /\ WF_vars(worker_read_ends)
    /\ WF_vars(send_realtime_get)
    /\ WF_vars(send_realtime_sent)
    /\ WF_vars(stop_wait_over)
    /\ WF_vars(stop_release)
    /\ WF_vars(shutdown_async_tasks)
    /\ WF_vars(shutdown_async_tasks_done)
    /\ WF_vars(main_task_runner_gathered)
    /\ WF_vars(run_finally)

SpecMicFair == SpecMic /\ MicFairness

\* the backend thread from its start to the return of run(), and stop() on
\* the UI thread.  Of the tasks listen_audio and receive_text take steps; the
\* others stay where they first suspend (send_realtime sends nothing, so
\* that the queue fills and listen_audio suspends in its put).
NextRun ==
    \/ start_event_loop
    \/ run_connected
    \/ run_connect_failed
    \/ runner_pc = "gather" /\ listen_audio_open
    \/ runner_pc = "gather" /\ listen_audio_read_start
    \/ runner_pc = "gather" /\ listen_audio_read_return
    \/ runner_pc = "gather" /\ listen_audio_check
    \/ worker_read_ends
    \/ runner_pc = "gather" /\ receive_text_while
    \/ runner_pc = "gather" /\ receive_text_turn_end
    \/ stop
    \/ stop_again
    \/ stop_wait_over
    \/ stop_release
    \/ shutdown_async_tasks
    \/ shutdown_async_tasks_no_tasks
    \/ shutdown_async_tasks_done
    \/ main_task_runner_gathered
    \/ run_finally
    \/ run_finally_stop_returns

SpecRun == InitRun /\ [][NextRun]_vars

\* the backend thread runs; the connection is made or fails; the loop runs
\* every coroutine that can go on; a call handed to a worker thread returns;
\* a call of stop() goes on.  The UI thread calls stop() or not.
RunFairness ==
    /\ WF_vars(start_event_loop)
    /\ WF_vars(run_connected \/ run_connect_failed)
    /\ WF_vars(runner_pc = "gather" /\ listen_audio_open)
    /\ WF_vars(runner_pc = "gather" /\ listen_audio_read_start)
    /\ WF_vars(runner_pc = "gather" /\ listen_audio_read_return)
    /\ WF_vars(runner_pc = "gather" /\ listen_audio_check)
    /\ WF_vars(worker_read_ends)
    /\ WF_vars(runner_pc = "gather" /\ receive_text_while)
    /\ WF_vars(stop_wait_over)
    /\ WF_vars(stop_release)
    /\ WF_vars(shutdown_async_tasks)
    /\ WF_vars(shutdown_async_tasks_no_tasks)
    /\ WF_vars(shutdown_async_tasks_done)
    /\ WF_vars(main_task_runner_gathered)
    /\ WF_vars(run_finally)
    /\ WF_vars(run_finally_stop_returns)

SpecRunFair == SpecRun /\ RunFairness

\* the video path: the capture loop, the mode switch, the frame sampler,
\* the sender and stop()
NextVideo ==
    \/ set_video_mode
    \/ stream_video_to_gui_iterate
    \/ stream_video_to_gui_opened
    \/ stream_video_to_gui_read
    \/ stream_video_to_gui_released
    \/ stream_video_to_gui_grabbed
    \/ send_frames_to_gemini_tick
    \/ send_realtime_get
    \/ send_realtime_sent
    \/ stop
    \/ shutdown_async_tasks

SpecVideo == Init /\ [][NextVideo]_vars

-----------------------------------------------------------------------------
(* Properties of receive_text's tool dispatch. *)

RECURSIVE Flatten(_)
\* the entries of a sequence of batches, in order
Flatten(batches) ==
    IF batches = <<>> THEN <<>> ELSE Head(batches) \o Flatten(Tail(batches))

\* the results sent back in the turn, each reduced to its id and name
ResultsSent ==
    LET all == Flatten(tool_batches)
    IN [i \in 1..Len(all) |-> [id |-> all[i].id, name |-> all[i].name]]

TurnOver == turn_outcome \in {"ended", "failed"}

\* C1: when a turn is over (its stream ended or an exception abandoned it),
\* the results sent back to the remote session are, one for one, the requests
\* received in the turn, each result with the id and the name of its request.
C1_EveryRequestAnswered == TurnOver => ResultsSent = tool_requests

\* the responses a chunk's calls must be answered with: same ids and names,
\* in request order
AnswersAll(batch, calls) ==
    /\ Len(batch) = Len(calls)
    /\ \A i \in 1..Len(calls) :
          batch[i].id = calls[i].id /\ batch[i].name = calls[i].name

EndOfTurnSignals ==
    SelectSig(signals, {"end_of_turn", "speaking_stopped", "file_list_received",
                        "code_being_executed", "search_results_received"})

\* C2: the dispatch of a tool-call chunk is left only by issuing one
\* send_tool_response that answers all k calls of the chunk in request order;
\* the next chunk is read only after that send, and handling the chunk emits
\* no end-of-turn signal.
C2_OneBatchPerToolChunk ==
    [][ /\ (recv_pc = "dispatch" /\ recv_pc' # "dispatch") =>
             /\ recv_pc' = "send_tool_response"
             /\ tool_batches' = Append(tool_batches, function_responses)
             /\ AnswersAll(function_responses, chunk_calls)
        /\ (recv_pc # "send_tool_response" /\ recv_pc' = "next_chunk") =>
             recv_pc \in {"start", "while", "next_chunk"}
        /\ (recv_pc \in {"dispatch", "send_tool_response"}) =>
             EndOfTurnSignals' = EndOfTurnSignals ]_vars

-----------------------------------------------------------------------------
(* Properties of the outbound path. *)

\* the items taken from out_queue_gemini so far: what was put on it and is
\* no longer in it
Dequeued == SubSeq(enqueued, 1, Len(enqueued) - Len(out_queue_gemini))

IsPrefix(s, t) == Len(s) <= Len(t) /\ s = SubSeq(t, 1, Len(s))

\* C3 (as stated): the items handed to send_realtime_input are exactly the
\* items taken from the queue, in the order they were put on it: none is
\* taken without being sent and none is sent twice.
C3_ForwardsEveryDequeued == forwarded = Dequeued

\* C3 (amended): the items handed to send_realtime_input are a prefix of the
\* items put on the queue (enqueue order, none twice); every item taken from
\* the queue is forwarded, except that the item taken when the running flag
\* is already false is discarded, and send_realtime ends with it.
C3_ForwardsInOrderUntilStop ==
    /\ IsPrefix(forwarded, enqueued)
    /\ \/ forwarded = Dequeued
       \/ /\ Len(Dequeued) = Len(forwarded) + 1
          /\ Dequeued[Len(Dequeued)] \in dropped
          /\ ~is_running
          /\ send_pc = "done"

\* C3 witness: audio chunks and an image were forwarded, and the item taken
\* after stop() was discarded.
C3_Witness ==
    /\ Len(forwarded) >= 3
    /\ \E i \in 1..Len(forwarded) : forwarded[i].mime_type = "image/jpeg"
    /\ Len(Dequeued) = Len(forwarded) + 1

\* the microphone chunks put on the queue so far, in order
AudioEnqueued == SelectSeq(enqueued, LAMBDA x : x.mime_type = "audio/pcm")

\* the chunk listen_audio holds between its read and the end of its put
ChunksHeld == IF mic_data = NoItem THEN 0 ELSE 1

\* every chunk read so far was put on the queue, in read order and once, or
\* is the one listen_audio holds
AllChunksKept ==
    /\ AudioEnqueued = [i \in 1..Len(AudioEnqueued) |-> AudioItem(i)]
    /\ Len(AudioEnqueued) + ChunksHeld = mic_reads
    /\ mic_data # NoItem => mic_data = AudioItem(mic_reads)

\* C4 (as stated): the queue never holds more than 20 items, and every chunk
\* read from the microphone has been put on the queue or is held by
\* listen_audio for its put: none is discarded.
C4_NoChunkDiscarded ==
    /\ Len(out_queue_gemini) <= QueueMaxSize
    /\ AllChunksKept

\* C4 (amended): the queue never holds more than 20 items; a producer
\* suspended in put holds its item; while the running flag is true every
\* chunk read from the microphone has been put on the queue, in read order,
\* or is held for its put.  A chunk is discarded only once the flag is false.
C4_NoChunkDiscardedWhileRunning ==
    /\ Len(out_queue_gemini) <= QueueMaxSize
    /\ mic_pc = "put" => mic_data = AudioItem(mic_reads)
    /\ frames_pc = "put" => frames_data = ImageItem(images_made)
    /\ is_running => AllChunksKept

\* C4 witness: the queue holds 20 items, listen_audio is suspended in put
\* with a chunk, and more than 20 items were put on the queue so far.
C4_Witness ==
    /\ Len(out_queue_gemini) = QueueMaxSize
    /\ mic_pc = "put"
    /\ Len(enqueued) > QueueMaxSize
    /\ is_running

-----------------------------------------------------------------------------
(* Properties of the speech path. *)

\* C5: the user texts are sent as user turns in the order taken from
\* text_input_queue, and at the moment each send_client_content is issued
\* response_queue_tts and audio_in_queue_player are both empty.
C5_QueuesEmptyAtSend ==
    \A i \in 1..Len(client_turns) :
        /\ client_turns[i].text = i
        /\ client_turns[i].tts = 0
        /\ client_turns[i].player = 0

\* C5 witness: a user turn was sent and its purge discarded queued buffers.
C5_Witness == client_turns # <<>> /\ drained > 0

-----------------------------------------------------------------------------
(* Properties of receive_text's content handling and of the end of a turn. *)

\* the text deltas emitted on text_received in the turn, in order
TextEmitted ==
    LET t == SelectSig(signals, {"text_received"})
    IN [i \in 1..Len(t) |-> t[i].a]

\* the text deltas received in the turn, in order
TextReceived == [i \in 1..received.text |-> i]

\* C7: the deltas emitted on text_received and the deltas put on
\* response_queue_tts are both the deltas received, in that order.
C7_TextToBothSinks ==
    turn_outcome = "open" =>
        /\ TextEmitted = TextReceived
        /\ response_queue_tts = TextReceived

\* C8: when the stream of a turn has ended without an exception, the last
\* item of response_queue_tts is the end-of-text sentinel (0 stands for
\* None) and the signals of the turn end with end_of_turn, speaking_stopped.
C8_SentinelThenClosing ==
    turn_outcome = "ended" =>
        /\ response_queue_tts # <<>>
        /\ response_queue_tts[Len(response_queue_tts)] = 0
        /\ Len(signals) >= 2
        /\ SubSeq(signals, Len(signals) - 1, Len(signals)) = ClosingSignals

ActivityNames ==
    {"file_list_received", "code_being_executed", "search_results_received"}

RECURSIVE NonEmpty(_)
\* the activity signals that carry a result
NonEmpty(s) ==
    IF s = <<>> THEN <<>>
    ELSE IF Head(s).a # 0 \/ Head(s).urls # {}
         THEN <<Head(s)>> \o NonEmpty(Tail(s))
         ELSE NonEmpty(Tail(s))

ActivityEmitted == SelectSig(signals, ActivityNames)

\* what the turn contained, from what was received and dispatched
ListingSucceeded ==
    \E i \in 1..Len(dispatched) :
        dispatched[i].name = "list_files" /\ dispatched[i].status = "success"
CodeReceived == received.code > 0
UrlCollected == received.uris # {}

\* C9: at most one non-empty activity signal is emitted in a turn, and at
\* the end of the turn it is the directory listing if a list_files call
\* succeeded, else the code execution if executable code was received, else
\* the search results if a grounding URL was collected.
C9_OneActivityByPriority ==
    LET ne == NonEmpty(ActivityEmitted) IN
    /\ Len(ne) <= 1
    /\ turn_outcome = "ended" =>
          /\ ListingSucceeded =>
                Len(ne) = 1 /\ ne[1].sig = "file_list_received"
          /\ (~ListingSucceeded /\ CodeReceived) =>
                Len(ne) = 1 /\ ne[1].sig = "code_being_executed"
          /\ (~ListingSucceeded /\ ~CodeReceived /\ UrlCollected) =>
                /\ Len(ne) = 1
                /\ ne[1].sig = "search_results_received"
                /\ ne[1].urls = received.uris
          /\ (~ListingSucceeded /\ ~CodeReceived /\ ~UrlCollected) =>
                ne = <<>>

\* C9 witness: a turn ended in which a listing succeeded, code was received
\* and a URL was collected.
C9_Witness ==
    /\ turn_outcome = "ended"
    /\ ListingSucceeded
    /\ CodeReceived
    /\ UrlCollected

\* a turn with no tool call, no grounding URL and no code-execution part
\* whose stream ended without an exception
EmptyTurnEnded ==
    /\ turn_outcome = "ended"
    /\ tool_requests = <<>>
    /\ received.uris = {}
    /\ received.code = 0
    /\ received.result = 0

EndOfTurnCount == Len(SelectSig(signals, {"end_of_turn"}))

\* C10 (as stated): such a turn emits exactly one empty activity signal and
\* exactly one end_of_turn.
C10_OneEmptySignal ==
    EmptyTurnEnded => Len(ActivityEmitted) = 1 /\ EndOfTurnCount = 1

\* C10 (amended): such a turn emits exactly three empty activity signals,
\* one on each activity channel (code_being_executed, then
\* search_results_received, then file_list_received), and exactly one
\* end_of_turn.
C10_ThreeEmptySignals ==
    EmptyTurnEnded =>
        /\ ActivityEmitted = <<Sig("code_being_executed", 0, 0, {}),
                               Sig("search_results_received", 0, 0, {}),
                               Sig("file_list_received", 0, 0, {})>>
        /\ EndOfTurnCount = 1

\* C10 witness: such a turn ended after text deltas.
C10_Witness == EmptyTurnEnded /\ received.text > 0

-----------------------------------------------------------------------------
(* Properties of the speech synthesis bridge. *)

\* the messages an episode that took these items must have sent
ExpectedMessages(taken) ==
    <<Message("priming", EndOfText)>> \o
    [i \in 1..Len(taken) |->
        IF taken[i] = EndOfText THEN Message("flush", EndOfText)
        ELSE Message("synthesis", taken[i])]

\* the items of an episode are fragments in the order they were produced,
\* and a sentinel can only be the last of them, after at least one fragment
TakenInOrder ==
    /\ \A i \in 1..Len(tts_taken) - 1 :
          /\ tts_taken[i] # EndOfText
          /\ tts_taken[i + 1] # EndOfText => tts_taken[i].n < tts_taken[i + 1].n
    /\ tts_taken # <<>> => tts_taken[1] # EndOfText

\* C11: an episode opens at most one connection, and exactly one before it
\* sends anything; what it has sent is the priming message, then one
\* synthesis message for each fragment it took, in order, then the flush
\* message if it took the sentinel; an episode that ran to its end on
\* n >= 1 fragments and the sentinel sent exactly that on one connection and
\* closed it with listen() finished.
C11_OneConnectionPerEpisode ==
    /\ ws_connects <= 1
    /\ ws_sent # <<>> => ws_connects = 1
    /\ TakenInOrder
    /\ tts_pc \in {"connect"} => ws_sent = <<>>
    /\ tts_pc \in {"prime"} => ws_sent = <<Message("priming", EndOfText)>>
    /\ tts_pc \in {"send_first", "next", "send", "flush", "await_listen"} =>
          ws_sent = ExpectedMessages(tts_taken)
    /\ episode_outcome = "completed" =>
          /\ Len(tts_taken) >= 2
          /\ tts_taken[Len(tts_taken)] = EndOfText
          /\ ws_sent = ExpectedMessages(tts_taken)
          /\ ws_connects = 1
          /\ websocket = "closed"
          /\ listener_at_close = "done"

\* C11 witness: an episode ran to its end on two fragments and the sentinel.
C11_Witness ==
    /\ episode_outcome = "completed"
    /\ Len(tts_taken) = 3
    /\ Len(ws_sent) = 4

SpeakingStarted == Len(SelectSig(tts_signals, {"speaking_started"}))
SpeakingStopped == Len(SelectSig(tts_signals, {"speaking_stopped"}))

\* C12: tts emits speaking_started and speaking_stopped in turn: inside an
\* episode one speaking_started is unanswered, and once the episode has
\* ended (normally, by an exception or by cancellation) every
\* speaking_started has been followed by its speaking_stopped.
C12_StoppedAfterEveryEpisode ==
    /\ \A i \in 1..Len(tts_signals) :
          tts_signals[i].sig =
              IF i % 2 = 1 THEN "speaking_started" ELSE "speaking_stopped"
    /\ tts_pc \in EpisodePcs =>
          /\ SpeakingStarted = SpeakingStopped + 1
          /\ episode_outcome = "open"
    /\ tts_pc \notin EpisodePcs =>
          /\ SpeakingStarted = SpeakingStopped
          /\ SpeakingStarted > 0 => episode_outcome \in EpisodeEnds

\* C12 witness: a second episode was cancelled with its connection open.
C12_Witness ==
    /\ episode_outcome = "cancelled"
    /\ websocket = "closed"
    /\ SpeakingStopped = 2

\* C13: every fragment sent on the connection of an episode was produced
\* before any user turn sent since the episode began: a fragment produced
\* after a user text is never sent on the connection of the episode that
\* text superseded.
C13_NoNewFragmentOnOldConnection ==
    \A i \in 1..Len(ws_sent) :
        ws_sent[i].kind = "synthesis" => ws_sent[i].frag.turns = episode_turns

-----------------------------------------------------------------------------
(* Properties of stop(). *)

\* the step e is in the log before position i
Before(e, i) == \E j \in 1..(i - 1) : stop_log[j] = e

WaitOver == {"wait_done", "timeout"}

\* C14 (as stated): when the input device is stopped and closed, the steps
\* before it were, in this order: the running flag cleared, the sentinel put
\* on text_input_queue, every task cancelled, the wait of stop() over.
C14_StepsInOrder ==
    \A r \in 1..Len(stop_log) :
        stop_log[r] = "release" =>
            \E f, s, c, w \in 1..(r - 1) :
                /\ f < s /\ s < c /\ c < w
                /\ stop_log[f] = "flag"
                /\ stop_log[s] = "sentinel"
                /\ stop_log[c] = "cancel"
                /\ stop_log[w] \in WaitOver

\* C14 (amended): the running flag is cleared first; the shutdown coroutine
\* puts the sentinel and then cancels every task; the wait of stop() ends
\* with the coroutine's result only after both; the input device is stopped
\* and closed only after the wait is over.  When the wait ends by timeout,
\* the device is released all the same and the sentinel and the cancellation
\* follow when the event loop runs the coroutine.
C14_StepsInOrderUnlessTimeout ==
    \A i \in 1..Len(stop_log) :
        /\ stop_log[i] = "sentinel" =>
              /\ Before("flag", i)
              /\ i < Len(stop_log)
              /\ stop_log[i + 1] = "cancel"
        /\ stop_log[i] = "cancel" => i > 1 /\ stop_log[i - 1] = "sentinel"
        /\ stop_log[i] = "wait_done" => Before("cancel", i)
        /\ stop_log[i] \in WaitOver => Before("flag", i)
        /\ stop_log[i] = "release" =>
              \E w \in 1..(i - 1) : stop_log[w] \in WaitOver

\* C14 witness: the device was released after a wait that ended with the
\* coroutine's result.
C14_Witness ==
    \E r \in 1..Len(stop_log) :
        stop_log[r] = "release" /\ Before("wait_done", r)

\* a step of a call of stop() made after the first call
LaterCallStep ==
    /\ stop_calls' >= 2
    /\ stop_pc' # stop_pc \/ stop_calls' # stop_calls

\* C15: a call of stop() after the first schedules no shutdown, cancels
\* nothing, makes no call that fails on the closed input stream and leaves
\* the state of the orchestrator as it was: it finds nothing to do and
\* returns.
C15_LaterStopChangesNothing ==
    [][ LaterCallStep =>
          /\ UNCHANGED <<is_running, cancelled, shutdown_pc, audio_stream,
                         recv_vars, mux_vars, speech_vars, tts_vars,
                         response_queue_tts, audio_in_queue_player>>
          /\ stop_log' \in {stop_log,
                            stop_log \o <<"no_stream", "return">>,
                            stop_log \o <<"inactive", "return">>} ]_vars

\* the steps of the log made by the UI thread
UiLog == SelectSeq(stop_log, LAMBDA e : e \notin Range(ShutdownSteps))

\* C16: a wait that ends by timeout never leaves stop(): the next step of
\* stop() is the test of line 1044, which stops and closes the input stream
\* if there is one.
C16_ReleaseAfterFailedWait ==
    /\ stop_pc # "raised"
    /\ \A i \in 1..Len(UiLog) :
          UiLog[i] = "timeout" =>
              IF i = Len(UiLog) THEN stop_pc = "release"
              ELSE UiLog[i + 1] \in {"release", "no_stream"}
    /\ (stop_pc = "idle" /\ stop_calls = 1 /\ audio_stream = "active") =>
          \E i \in 1..Len(stop_log) : stop_log[i] = "no_stream"

\* C16 witness: the wait ended by timeout before the shutdown coroutine had
\* run, and the input stream was stopped and closed.
C16_Witness ==
    /\ shutdown_pc = "scheduled"
    /\ audio_stream = "closed"
    /\ \E i \in 1..Len(stop_log) :
          stop_log[i] = "release" /\ Before("timeout", i)

-----------------------------------------------------------------------------
(* Properties of the video path. *)

\* C17: once stream_video_to_gui has ended, whether its loop saw the running
\* flag false or the task was cancelled, no camera capture is held.
C17_NoCaptureHeldAfterEnd == video_pc = "done" => cameras_held = 0

\* a step in which send_realtime hands an image to send_realtime_input
ImageForwarded ==
    /\ Len(forwarded') = Len(forwarded) + 1
    /\ forwarded'[Len(forwarded')].mime_type = "image/jpeg"

\* C18 (as stated): every image is forwarded at a time when video_mode is
\* "camera" or "screen", never while it is "none".
C18_NoImageSentInModeNone ==
    [][ImageForwarded => video_mode \in {"camera", "screen"}]_vars

\* C18 (amended): send_frames_to_gemini encodes an image only when its test
\* finds video_mode "camera" or "screen" and a latest frame; an image encoded
\* before a switch to "none" is still put on the queue and forwarded after
\* it.
C18_NoImageSampledInModeNone ==
    [][images_made' # images_made =>
          video_mode \in {"camera", "screen"} /\ latest_frame # 0]_vars

\* C18 witness: an image was forwarded and the mode is "none".
C18_Witness ==
    /\ video_mode = "none"
    /\ mode_switches >= 1
    /\ \E i \in 1..Len(forwarded) : forwarded[i].mime_type = "image/jpeg"

\* the camera captures the loop's local accounts for
HeldByLoop == IF video_capture = "opened" THEN 1 ELSE 0

\* C19: at most one camera capture is held at any time, and while the loop
\* runs it is the one its local names (none is lost over the switches); an
\* iteration that has read a mode other than "camera" has released the
\* capture held under the previous mode before it grabs the screen or idles,
\* and a read is only made on the one opened capture.
C19_ReleasedBeforeNextCapture ==
    /\ cameras_held <= 1
    /\ video_pc # "done" => cameras_held = HeldByLoop
    /\ video_pc = "grab" =>
          /\ iteration_mode = "screen"
          /\ video_capture = "none"
          /\ cameras_held = 0
    /\ (video_pc = "sleep" /\ iteration_mode # "camera") =>
          /\ video_capture = "none"
          /\ cameras_held = 0
    /\ video_pc = "read" => video_capture = "opened" /\ cameras_held = 1

\* C19 witness: after two switches the loop grabs the screen, the camera it
\* had opened before being released, and the mode is screen.
C19_Witness ==
    /\ mode_switches >= 2
    /\ captures_opened >= 1
    /\ video_pc = "grab"
    /\ video_mode = "screen"
    /\ latest_frame = 1

\* a step of set_video_mode
ModeSwitched == mode_switches' = mode_switches + 1

\* C20 (as stated): right after set_video_mode returns with a mode other
\* than "camera", no camera capture is held.
C20_ReleasedOnReturn ==
    [][(ModeSwitched /\ video_mode' # "camera") => cameras_held' = 0]_vars

\* C20 (amended): set_video_mode only records a valid mode, and clears
\* latest_frame when the mode is "none": it releases nothing and leaves the
\* capture loop where it is.  A camera capture held under the previous mode
\* stays held until the loop's next iteration, which releases it when it
\* reads a mode other than "camera".
C20_ReleasedByNextIteration ==
    [][ /\ ModeSwitched =>
             /\ UNCHANGED <<video_capture, cameras_held, video_pc,
                            iteration_mode>>
             /\ IF mode_arg' \in {"camera", "screen", "none"}
                THEN /\ video_mode' = mode_arg'
                     /\ latest_frame' =
                            IF mode_arg' = "none" THEN 0 ELSE latest_frame
                ELSE UNCHANGED <<video_mode, latest_frame>>
        /\ (video_pc \in {"start", "sleep"} /\ video_pc' # video_pc
              /\ is_running /\ video_mode # "camera") =>
             IF video_capture # "none"
             THEN video_pc' \in {"release_screen", "release_none"}
             ELSE video_pc' \in {"grab", "sleep"}
        /\ (video_pc \in {"release_screen", "release_none"}
              /\ video_pc' \in {"grab", "sleep"}) =>
             cameras_held' = 0 /\ video_capture' = "none" ]_vars

\* C20 witness: set_video_mode has returned with a mode other than "camera"
\* while the loop, in an iteration begun under "camera", holds an opened
\* camera capture.
C20_Witness ==
    /\ mode_switches >= 1
    /\ video_mode # "camera"
    /\ iteration_mode = "camera"
    /\ video_capture = "opened"
    /\ cameras_held = 1

\* an iteration that emitted frame_received
Published == iteration_end \in {"image", "null"}

\* C21 (as stated): every iteration that has reached its sleep has emitted
\* frame_received, and one that read the mode "none" has emitted it with an
\* empty image.
C21_PublishesEveryIteration ==
    video_pc = "sleep" =>
       /\ Published
       /\ iteration_mode = "none" => iteration_end = "null"

\* C21 (amended): an iteration that read the mode "none" emits nothing and
\* idles; one that read "screen" emits the grabbed frame unless the grab
\* failed; one that read "camera" emits the frame read, emits the empty image
\* exactly when the capture object is not opened, and emits nothing when the
\* read returned no frame or failed.
C21_PublishesOnlyOutsideModeNone ==
    video_pc = "sleep" =>
       /\ iteration_end \in IterationEnds
       /\ iteration_mode = "none" => iteration_end = "idle"
       /\ iteration_mode = "screen" => iteration_end \in {"image", "error"}
       /\ iteration_mode = "camera" =>
             /\ iteration_end \in {"image", "null", "no_frame", "error"}
             /\ iteration_end = "null" <=> video_capture = "unopened"
       /\ Published => iteration_mode \in {"camera", "screen"}

\* C21 witness: an iteration under the mode "none" has reached its sleep.
C21_Witness ==
    /\ video_pc = "sleep"
    /\ video_mode = "none"
    /\ iteration_mode = "none"
    /\ iteration_end = "idle"

\* C22: a capture failure does not end the task (it ends only with the
\* running flag false); by the back-off the capture the loop held is
\* released; and the iteration after the back-off, with the running flag
\* true, goes on to the capture of the mode it reads.
C22_FailureReleasesAndRetries ==
    [][ /\ video_pc' = "done" => ~is_running'
        /\ (iteration_end' = "error" /\ video_pc' # "done") =>
              video_pc' \in {"release_error", "sleep"}
        /\ (iteration_end' = "error" /\ video_pc' = "sleep") =>
              video_capture' = "none" /\ cameras_held' = 0
        /\ (iteration_end = "error" /\ video_pc = "sleep"
               /\ video_pc' # "sleep" /\ is_running) =>
              /\ video_pc' =
                    CASE video_mode = "camera" -> "open"
                      [] video_mode = "screen" -> "grab"
              /\ iteration_end' = "pending" ]_vars

\* C22 witness: with the mode "camera" throughout, the loop opens the camera
\* a second time, which it does only after a failed open or a failed read,
\* and holds no capture from the first attempt.
C22_Witness ==
    /\ is_running
    /\ mode_switches = 0
    /\ captures_opened = 2
    /\ video_pc = "open"
    /\ cameras_held = 0

-----------------------------------------------------------------------------
(* Properties of the error handling of receive_text, of the dispatch and of *)
(* the hand-off of user texts.                                              *)

\* a step in which the body of receive_text's loop is left by an exception
TurnFails == turn_outcome # "failed" /\ turn_outcome' = "failed"

\* C23: an exception raised in a turn is caught: receive_text goes back to
\* its loop test when the running flag is true and leaves the loop only when
\* it is false; from there, with the flag true, it begins the next turn with
\* fresh locals; the task never ends while the flag is true.
C23_ExceptionAbandonsTurnOnly ==
    [][ /\ TurnFails =>
              recv_pc' = IF is_running THEN "while" ELSE "done"
        /\ (turn_outcome = "failed" /\ recv_pc = "while"
               /\ recv_pc' # "while" /\ is_running) =>
              /\ recv_pc' = "next_chunk"
              /\ turn_outcome' = "open"
              /\ chunks_read' = 0
              /\ turn_urls' = {} /\ file_list_data' = 0
              /\ turn_code_content' = 0 /\ turn_code_result' = 0
        /\ recv_pc' = "done" => ~is_running' ]_vars

\* C23 witness: a turn was abandoned by an exception with the running flag
\* true, and receive_text is back at its loop test.
C23_Witness ==
    /\ is_running
    /\ turn_outcome = "failed"
    /\ recv_pc = "while"

\* a step in which the dispatch has carried out a function call
CallExecuted == Len(dispatched') = Len(dispatched) + 1

\* C25: no step of the dispatch leaves the loop body by an exception, and
\* each call carried out, whatever its status, has its result appended to
\* the batch that answers the chunk.
C25_ToolFailureBecomesResult ==
    [][ /\ recv_pc \in {"dispatch", "search"} => ~TurnFails
        /\ CallExecuted =>
              LET done == dispatched'[Len(dispatched')]
                  last == function_responses'[Len(function_responses')]
              IN  /\ Len(function_responses') = Len(function_responses) + 1
                  /\ last.id = done.id
                  /\ last.status = done.status ]_vars

\* C26: every function call is carried out while receive_text is suspended
\* in an await, where the other tasks of the event loop can take steps.
C26_ToolsRunOffTheLoop ==
    [][CallExecuted => recv_pc = "search" /\ Suspended]_vars

\* the texts of the user turns sent, in the order of the sends
TextsForwarded == [i \in 1..Len(client_turns) |-> client_turns[i].text]

\* the texts waiting on text_input_queue, without the sentinel
TextsQueued == SelectSeq(text_input_queue, LAMBDA x : x # 0)

\* C27: handle_user_text does not touch text_input_queue: the put is run by
\* the event loop.  At any time the texts forwarded as user turns, followed
\* by those waiting on the queue and those handed over and not yet put, are
\* the texts submitted, in submission order, each once: none is lost,
\* duplicated or overtaken.
C27_TextsForwardedInOrderOnce ==
    [][ /\ texts_submitted' # texts_submitted =>
              text_input_queue' = text_input_queue
        /\ TextsForwarded' \o TextsQueued' \o pending_puts' =
              [i \in 1..texts_submitted' |-> i] ]_vars

\* C27 witness: two texts were submitted and both were forwarded, with the
\* running flag true.
C27_Witness ==
    /\ is_running
    /\ texts_submitted = 2
    /\ Len(client_turns) = 2
    /\ text_pc = "get"

-----------------------------------------------------------------------------
(* Properties of the microphone task and of main_task_runner. *)

\* the orchestrator has reacted to the end of listen_audio: the task runs
\* again, or shutdown has begun, or main_task_runner has returned
MicFailureHandled ==
    \/ mic_pc # "done"
    \/ ~is_running
    \/ runner_pc = "returned"

\* C24: once a microphone read has raised and ended listen_audio, the
\* orchestrator comes to react to it: it restarts the task or begins
\* shutdown, and does not go on waiting for the other tasks.
C24_MicFailureDetected == mic_failed ~> MicFailureHandled

\* C29: stop() stops and closes the audio input stream only when no worker
\* thread is inside a read on that stream.
C29_NoCloseDuringRead ==
    [][(audio_stream = "active" /\ audio_stream' = "closed") =>
          ~worker_reading]_vars

\* C28: video_mode and latest_frame are written only from the event loop's
\* own context, never by the UI thread: every write by set_video_mode falls
\* between two coroutine steps, when every coroutine of the loop is
\* suspended.
C28_ModeWrittenOnLoopOnly == [][ModeSwitched => Suspended]_vars

\* play_audio takes the oldest buffer of audio_in_queue_player
PlayerDequeues ==
    /\ audio_in_queue_player # <<>>
    /\ audio_in_queue_player' = Tail(audio_in_queue_player)
    /\ text_pc' = text_pc

\* audio_in_queue_player changes by a put at its tail, by a get at its head
\* or by the purge
PlayerQueueFifo ==
    \/ Len(audio_in_queue_player') >= Len(audio_in_queue_player)
       /\ SubSeq(audio_in_queue_player', 1, Len(audio_in_queue_player))
              = audio_in_queue_player
    \/ PlayerDequeues
    \/ audio_in_queue_player' = <<>>

\* C30: play_audio writes the buffers in the order they were put, one at a
\* time: a buffer is written in the step that takes it from the head of the
\* queue, after the write before it has returned; a buffer that holds bytes
\* and is taken while is_running is true is written in that step, once, and
\* no other step writes anything.
C30_WritesInOrderOnce ==
    [][/\ PlayerQueueFifo
       /\ PlayerDequeues => play_pc = "get"
       /\ IF PlayerDequeues /\ is_running
             /\ Head(audio_in_queue_player).bytes # 0
          THEN /\ written' = Append(written, Head(audio_in_queue_player))
               /\ bytestream' = Head(audio_in_queue_player)
               /\ play_pc' = "write"
          ELSE written' = written]_vars

\* three buffers arrived and none was purged: one that holds no bytes was
\* skipped and the two others were written, the second after the first
\* write had returned
C30_Witness ==
    /\ received.audio = 3
    /\ drained = 0
    /\ audio_in_queue_player = <<>>
    /\ Len(written) = 2
    /\ play_pc = "get"
    /\ is_running

-----------------------------------------------------------------------------
(* Properties of the turn's slots, of speaking and of the end of run(). *)

\* the last list_files call of the turn that succeeded, 0 when there is none
LastListing ==
    LET ok == {i \in 1..Len(dispatched) :
                  /\ dispatched[i].name = "list_files"
                  /\ dispatched[i].status = "success"}
    IN IF ok = {} THEN 0
       ELSE dispatched[CHOOSE i \in ok : \A j \in ok : j <= i].id

SpeakingSignals == SelectSig(signals, {"speaking_started", "speaking_stopped"})

\* the last of them is a speaking_started
SpeakingOpen ==
    /\ SpeakingSignals # <<>>
    /\ SpeakingSignals[Len(SpeakingSignals)].sig = "speaking_started"

\* a speaking_stopped was emitted and no speaking_started after it
SpeakingClosed ==
    /\ SpeakingSignals # <<>>
    /\ SpeakingSignals[Len(SpeakingSignals)].sig = "speaking_stopped"

\* C32: while the backend runs, every speaking_started that receive_text
\* emits is eventually followed by a speaking_stopped, also when the stream
\* of the turn raises after the audio part.
C32_SpeakingStops == SpeakingOpen ~> (SpeakingClosed \/ ~is_running)

\* the stop() that the finally clause of run() called has returned
RunStopReturns == runner_pc = "in_stop" /\ runner_pc' = "returned"

\* C33: when run() ends with the running flag still set and its finally
\* clause calls stop() on the loop's thread, the shutdown coroutine that this
\* stop() schedules has run to its end when the wait of stop() ends.
C33_ShutdownRunsInFinally == [][RunStopReturns => ShutdownCompleted]_vars

\* every task has ended
AllTasksEnded == GatherReturns

\* no task has taken a step: all are where main_task_runner would create
\* them
NoTaskStarted ==
    /\ recv_pc = "start" /\ mic_pc = "start" /\ frames_pc = "sleep"
    /\ send_pc = "get" /\ text_pc = "get" /\ play_pc = "get"
    /\ tts_pc = "start" /\ video_pc = "start"

\* C34: after a stop() from the UI thread that found the loop running, every
\* task ends, whatever it was suspended in, and run() returns (with no task
\* ever created when the connection failed).
C34_TasksEndAfterStop ==
    (stop_pc = "wait") ~>
        (runner_pc = "returned" /\ (AllTasksEnded \/ NoTaskStarted))

\* C34 witness: stop() came while listen_audio was suspended in its put on
\* the full queue and receive_text in the stream of a turn, and run() has
\* returned with every task ended.
C34_Witness ==
    /\ runner_pc = "returned"
    /\ AllTasksEnded
    /\ cancelled
    /\ dropped # {}
    /\ turn_outcome = "open"
    /\ Len(out_queue_gemini) = QueueMaxSize

\* C35: the loop does not stop while the shutdown coroutine that a stop()
\* on the UI thread scheduled has not ended.
C35_LoopOutlivesShutdown ==
    (runner_pc = "returned" /\ stop_calls > 0) => shutdown_pc # "sleep"

\* C36: after a call of stop() has returned the running flag is false,
\* whether the loop had not started, was running or had finished.
C36_StoppedAfterStop ==
    [][(stop_pc = "release" /\ stop_pc' = "idle") => ~is_running']_vars

\* C37: while video_mode is "none" the latest-frame slot is empty.
C37_NoFrameInModeNone == video_mode = "none" => latest_frame = 0

\* C38: while the running flag is true every item put on out_queue_gemini
\* is eventually handed to send_realtime_input (the k-th put is followed by
\* the k-th send; stated for the first two), and a producer suspended in put
\* on the full queue is eventually released, also after a send has raised.
C38_OutboundProgress ==
    /\ \A k \in 1..2 :
          (Len(enqueued) >= k) ~> (Len(forwarded) >= k \/ ~is_running)
    /\ (mic_pc = "put") ~> (mic_pc # "put" \/ ~is_running)

=============================================================================
